---- MODULE Spec2Model ----
(***************************************************************************)
(* Verification model of the airfare marketplace core:                     *)
(*   - providers/amadeus_provider.py : _offer_signature, _offer_rank_key,  *)
(*     _dedup_offers                                                       *)
(*   - core/scoring.py               : score_offer, score_offers,          *)
(*     pick_recommended, pick_best_by_price                                *)
(*   - sqlite_history_store.py       : offer_signature, append_offers,     *)
(*     get_route_history, get_market_trend, get_market_trend_usd_dual      *)
(*   - services/fx_rate_services.py  : FxRateService                       *)
(*                                                                         *)
(* Conventions.  Python str values are TLA+ strings and str.join is string *)
(* concatenation.  An Optional[str] that the code only reads through       *)
(* `x or ""` is modelled by its string, "" standing for None.  A datetime  *)
(* is a natural number (an instant), NoneDT standing for None.  A date     *)
(* field of an Offer is a tagged record, because the providers store       *)
(* dates, None, text and NaN in it.  Prices are whole currency units.      *)
(***************************************************************************)
EXTENDS Integers, Sequences, FiniteSets, TLC

VARIABLES
    pc,          \* position of the harness / request
    offers,      \* the offer list handed to the function under study
    deduped,     \* _dedup_offers(offers)
    deduped2,    \* _dedup_offers(deduped)
    params,      \* SearchParams of the scoring call
    scored,      \* score_offers(offers, params)
    recommended, \* pick_recommended(scored)
    best_price,  \* pick_best_by_price(offers)
    table,       \* price_observations, in rowid order
    now,         \* datetime.utcnow()
    fx_cache,    \* fx_rates_daily: a set of rows, key (pair, day_utc)
    fx_up,       \* what the upstream FX provider answers per symbol form
    ret,         \* the outcome of the last call
    fx_prev,     \* the get_rate_to_usd call completed before the last one
    sess,        \* the get_rate_to_usd call each session is in
    ui,          \* what the search page has shown
    client       \* AmadeusClient: _access_token, _token_expiry_epoch

dedupVars == <<deduped, deduped2>>
scoreVars == <<params, scored, recommended, best_price>>
storeVars == <<table, now, fx_cache, fx_up, ret>>
serviceVars == <<fx_prev, sess, ui, client>>
vars == <<pc, offers, dedupVars, scoreVars, storeVars, serviceVars>>

(***************************************************************************)
(* Bounds of the model.                                                    *)
(***************************************************************************)
MaxOffers == 3
\* offers handed to one append_offers call
MaxBatch == 2
\* rows the observation table may hold
MaxRows == 2
\* last instant of the clock; two instants make a UTC day
MaxClock == 2
\* rows of a stored observation table handed to a trend query
MaxTrendRows == 3
\* minutes the clock of the Amadeus client may advance
MaxClientTicks == 3

(***************************************************************************)
(* Values.                                                                 *)
(***************************************************************************)
NoneDT == -1
\* datetime.max, the rank of an unknown first departure.
DatetimeMax == 99999999

NoneVal == [k |-> "none", d |-> 0]
DateVal(n) == [k |-> "date", d |-> n]
\* A CSV cell kept as text (csv_provider.py copies return_date unparsed).
TextVal(n) == [k |-> "text", d |-> n]

\* Sequences over S of length 0..n.
SeqUpTo(S, n) == UNION {[1..k -> S] : k \in 0..n}

RECURSIVE Join(_, _)
\* sep.join(parts)
Join(sep, parts) ==
    IF Len(parts) = 0 THEN ""
    ELSE IF Len(parts) = 1 THEN parts[1]
    ELSE parts[1] \o sep \o Join(sep, Tail(parts))

\* datetime.isoformat()
IsoDT(t) == "T" \o ToString(t)

\* str(x) of a date-typed offer field: str(date), "" for a falsy value,
\* the text itself for a text cell.
StrOfDateField(v) ==
    IF v.k = "none" THEN ""
    ELSE IF v.k = "date" THEN "D" \o ToString(v.d)
    ELSE "X" \o ToString(v.d)

Segment(o, d, c, f, t) ==
    [origin |-> o, destination |-> d, carrier_code |-> c,
     flight_number |-> f, dep_at |-> t, arr_at |-> NoneDT]

Itinerary(dir, segs) == [direction |-> dir, segments |-> segs]

S1 == Segment("SJU", "JFK", "AA", "100", 8)

Offer(prov, dep, rdate, air, so, sr, price, cur, its) ==
    [provider |-> prov, origin |-> "SJU", destination |-> "JFK",
     trip_structure |-> "One-way",
     departure_date |-> dep, return_date |-> rdate, airline |-> air,
     stops_out |-> so, stops_return |-> sr, total_price_usd |-> price,
     currency |-> cur, itineraries |-> its, airline_name |-> ""]

(***************************************************************************)
(* providers/amadeus_provider.py                                           *)
(***************************************************************************)
SegPart(s) ==
    Join("|", <<s.origin, s.destination, s.carrier_code, s.flight_number,
                IF s.dep_at # NoneDT THEN IsoDT(s.dep_at) ELSE "">>)

ItinPart(it) ==
    Join(">", [i \in 1..Len(it.segments) |-> SegPart(it.segments[i])])

\* The mutant: the signature also reads the price.
SigWithPrice(offer) ==
    Join("||", [i \in 1..Len(offer.itineraries) |-> ItinPart(offer.itineraries[i])])
        \o "|" \o ToString(offer.total_price_usd)

\* _offer_signature(offer).  The fields carry no blank, so the .strip() of
\* line 170 removes nothing and sig is empty exactly when no itinerary has
\* a segment and there are fewer than two itineraries.
_offer_signature(offer) ==
    LET parts == [i \in 1..Len(offer.itineraries) |-> ItinPart(offer.itineraries[i])]
        sig == Join("||", parts)
    IN  IF sig # "" THEN sig
        ELSE Join("|", <<offer.origin, offer.destination,
                         StrOfDateField(offer.departure_date),
                         StrOfDateField(offer.return_date),
                         offer.airline,
                         ToString(offer.stops_out),
                         ToString(offer.stops_return)>>)

\* _offer_rank_key(offer): (price, total stops, first outbound departure)
_offer_rank_key(offer) ==
    LET total_stops == offer.stops_out + offer.stops_return
        first_dep ==
            IF Len(offer.itineraries) > 0 /\ Len(offer.itineraries[1].segments) > 0
            THEN offer.itineraries[1].segments[1].dep_at
            ELSE NoneDT
        dep_sort == IF first_dep # NoneDT THEN first_dep ELSE DatetimeMax
    IN  <<offer.total_price_usd, total_stops, dep_sort>>

\* The mutant: a <= b, so a collision keeps the later offer on a rank tie.
RankLessOrEqual(a, b) ==
    \/ a[1] < b[1]
    \/ a[1] = b[1] /\ a[2] < b[2]
    \/ a[1] = b[1] /\ a[2] = b[2] /\ a[3] <= b[3]

\* Python's tuple comparison a < b on triples.
RankLess(a, b) ==
    \/ a[1] < b[1]
    \/ a[1] = b[1] /\ a[2] < b[2]
    \/ a[1] = b[1] /\ a[2] = b[2] /\ a[3] < b[3]

\* The comparison of line 216.
Better(o, kept) == RankLess(_offer_rank_key(o), _offer_rank_key(kept))

\* The mutant: a better colliding offer is added beside the kept one.
DedupStepAppendBetter(best, o) ==
    IF \E j \in 1..Len(best) :
          _offer_signature(best[j]) = _offer_signature(o) /\ ~Better(o, best[j])
    THEN best
    ELSE Append(best, o)

\* One iteration of the loop of _dedup_offers: best is best_by_sig.values()
\* in key insertion order (a replaced value keeps its key's position).
DedupStep(best, o) ==
    LET sig == _offer_signature(o)
    IN  IF ~\E j \in 1..Len(best) : _offer_signature(best[j]) = sig
        THEN Append(best, o)
        ELSE [j \in 1..Len(best) |->
                IF _offer_signature(best[j]) = sig /\ Better(o, best[j])
                THEN o ELSE best[j]]

RECURSIVE DedupFrom(_, _, _)
DedupFrom(L, i, best) ==
    IF i > Len(L) THEN best ELSE DedupFrom(L, i + 1, DedupStep(best, L[i]))

\* The mutant: the loop misses the first offer.
DedupSkipFirst(L) == DedupFrom(L, 2, <<>>)

\* _dedup_offers(offers)
_dedup_offers(L) == DedupFrom(L, 1, <<>>)

\* _max_stops_from_label: the labels of the page are "Nonstop only",
\* "Up to 1 stop" and "Up to 2+ stops"
_max_stops_from_label(label) ==
    IF label = "Nonstop only" THEN 0
    ELSE IF label = "Up to 1 stop" THEN 1
    ELSE 2

\* _count_stops(itinerary)
_count_stops(itinerary) ==
    IF Len(itinerary.segments) > 1 THEN Len(itinerary.segments) - 1 ELSE 0

\* _pick_airline_code(offer)
_pick_airline_code(o) ==
    IF Len(o.validatingAirlineCodes) > 0 THEN o.validatingAirlineCodes[1]
    ELSE IF Len(o.itineraries) > 0 /\ Len(o.itineraries[1].segments) > 0
    THEN o.itineraries[1].segments[1].carrierCode
    ELSE ""

\* The instants a flight may leave or arrive at.
FlightInstants == 6..9

\* _parse_dt(value): None for an absent or malformed text
_parse_dt(value) ==
    IF \E t \in FlightInstants : IsoDT(t) = value
    THEN CHOOSE t \in FlightInstants : IsoDT(t) = value
    ELSE NoneDT

\* The Segment of lines 117-131 (the carriers dictionary is absent, so
\* every carrier name is None).
BuildSegment(seg) ==
    [origin |-> seg.departure.iataCode, destination |-> seg.arrival.iataCode,
     carrier_code |-> seg.carrierCode, flight_number |-> seg.number,
     dep_at |-> _parse_dt(seg.departure.at), arr_at |-> _parse_dt(seg.arrival.at)]

\* _build_itineraries(offer_raw, carriers_dict)
_build_itineraries(o) ==
    [idx \in 1..Len(o.itineraries) |->
        Itinerary(IF idx = 1 THEN "OUT" ELSE "RETURN",
                  [k \in 1..Len(o.itineraries[idx].segments) |->
                      BuildSegment(o.itineraries[idx].segments[k])])]

\* The amounts a price text of the model may denote.
Amounts == {0, 250, 300}

\* float(total_str) raises ValueError on a text that is no number
FloatRaises(text) == ~\E n \in Amounts : ToString(n) = text

\* float(total_str)
Float(text) == CHOOSE n \in Amounts : ToString(n) = text

\* price.get("grandTotal") or price.get("total") or "0" (line 257)
TotalStr(price) ==
    IF price.grandTotal # "" THEN price.grandTotal
    ELSE IF price.total # "" THEN price.total
    ELSE "0"

\* The Offer of lines 272-291, without its offer_signature
BuildOffer(p, o) ==
    [provider |-> "amadeus", origin |-> p.origin, destination |-> p.destination,
     trip_structure |-> p.trip_structure,
     departure_date |-> DateVal(p.departure_date),
     return_date |-> IF p.return_date = NoneDT THEN NoneVal ELSE DateVal(p.return_date),
     airline |-> _pick_airline_code(o),
     stops_out |-> IF Len(o.itineraries) >= 1 THEN _count_stops(o.itineraries[1]) ELSE 0,
     stops_return |-> IF Len(o.itineraries) >= 2 THEN _count_stops(o.itineraries[2]) ELSE 0,
     total_price_usd |-> Float(TotalStr(o.price)),
     currency |-> o.price.currency,
     itineraries |-> _build_itineraries(o),
     airline_name |-> ""]

\* offer.offer_signature = _offer_signature(offer) (line 293)
Signed(offer) ==
    [f \in DOMAIN offer \cup {"offer_signature"} |->
        IF f = "offer_signature" THEN _offer_signature(offer) ELSE offer[f]]

\* The post-filter of lines 298-304.
StopsAllowed(of, max_allowed) ==
    max_allowed >= 1 => (of.stops_out <= max_allowed /\ of.stops_return <= max_allowed)

\* The query of lines 231-244; returnDate "" and nonStop "" are absent keys.
Query(p) ==
    [originLocationCode |-> p.origin, destinationLocationCode |-> p.destination,
     departureDate |-> ToString(p.departure_date),
     returnDate |-> IF p.trip_structure = "Roundtrip" /\ p.return_date # NoneDT
                    THEN ToString(p.return_date) ELSE "",
     adults |-> IF p.passengers > 1 THEN p.passengers ELSE 1,
     nonStop |-> IF _max_stops_from_label(p.max_stops) = 0 THEN "true" ELSE ""]

\* Lines 248-306: the offers built from the payload data
OffersOfPayload(p, data) ==
    LET Allowed(of) == StopsAllowed(of, _max_stops_from_label(p.max_stops))
    IN  SelectSeq([i \in 1..Len(data) |-> Signed(BuildOffer(p, data[i]))], Allowed)

\* _search_one(params): answer is what client.get does for the query, an
\* error raised or a payload
_search_one(p, answer) ==
    IF answer.raised
    THEN [raised |-> TRUE, err |-> answer.err, offers |-> <<>>]
    ELSE IF \E i \in 1..Len(answer.data) : FloatRaises(TotalStr(answer.data[i].price))
    THEN [raised |-> TRUE, err |-> "ValueError", offers |-> <<>>]
    ELSE [raised |-> FALSE, err |-> "", offers |-> OffersOfPayload(p, answer.data)]

\* trip_len of lines 314-316; no length is NoneDT
TripLen(p) ==
    IF p.trip_structure = "Roundtrip" /\ p.return_date # NoneDT
    THEN p.return_date - p.departure_date
    ELSE NoneDT

\* The mutant: the sub-search keeps the flag of the request.
SubSearchKeepsFlexible(p, delta) ==
    [p EXCEPT !.departure_date = p.departure_date + delta,
              !.return_date = IF TripLen(p) # NoneDT
                              THEN p.departure_date + delta + TripLen(p)
                              ELSE NoneDT]

\* p2 of lines 319-337
SubSearch(p, delta) ==
    [p EXCEPT !.departure_date = p.departure_date + delta,
              !.return_date = IF TripLen(p) # NoneDT
                              THEN p.departure_date + delta + TripLen(p)
                              ELSE NoneDT,
              !.flexible_dates = FALSE]

\* range(-3, 4)
FirstDelta == -3
LastDelta == 3

\* the outcome of search: the error raised or the offers returned, and the
\* sub-searches issued
SearchRaised(err, log) == [raised |-> TRUE, err |-> err, offers |-> <<>>, log |-> log]
SearchReturned(offs, log) == [raised |-> FALSE, err |-> "", offers |-> offs, log |-> log]

\* The mutant: a failing sub-search is skipped and the loop goes on.
RECURSIVE SearchFromSkipFailure(_, _, _, _, _)
SearchFromSkipFailure(p, delta, results, log, up) ==
    IF delta > LastDelta THEN SearchReturned(_dedup_offers(results), log)
    ELSE SearchFromSkipFailure(p, delta + 1,
             results \o _search_one(SubSearch(p, delta),
                                    up[Query(SubSearch(p, delta)).departureDate]).offers,
             Append(log, SubSearch(p, delta)), up)

\* The loop of lines 318-341 from delta on; up is what client.get answers
\* for a departureDate.
RECURSIVE SearchFrom(_, _, _, _, _)

\* the sub-search of delta has ended with outcome r
RECURSIVE SearchStep(_, _, _, _, _, _)
SearchStep(p, delta, results, log, up, r) ==
    IF r.raised THEN SearchRaised(r.err, log)
    ELSE SearchFrom(p, delta + 1, results \o r.offers, log, up)

SearchFrom(p, delta, results, log, up) ==
    IF delta > LastDelta THEN SearchReturned(_dedup_offers(results), log)
    ELSE SearchStep(p, delta, results, Append(log, SubSearch(p, delta)), up,
                    _search_one(SubSearch(p, delta),
                                up[Query(SubSearch(p, delta)).departureDate]))

\* line 310, from the outcome r of the one sub-search
SearchOne(r, log) ==
    IF r.raised THEN SearchRaised(r.err, log)
    ELSE SearchReturned(_dedup_offers(r.offers), log)

\* AmadeusProvider.search(params)
search(p, up) ==
    IF ~p.flexible_dates
    THEN SearchOne(_search_one(p, up[Query(p).departureDate]), <<p>>)
    ELSE SearchFrom(p, FirstDelta, <<>>, <<>>, up)

(***************************************************************************)
(* core/scoring.py                                                         *)
(***************************************************************************)
\* The price that stands for a missing (falsy) total price.
PriceMissing == 1000000000
StopPenalty == 35
DatePenalty == 5

Abs(n) == IF n < 0 THEN -n ELSE n

\* _date_offset_days: the subtraction raises unless both are dates, and the
\* except branch returns 0.
_date_offset_days(offer, p) ==
    IF offer.departure_date.k = "date"
    THEN Abs(offer.departure_date.d - p.departure_date)
    ELSE 0

\* The mutant: the return stops count on a one-way search as well.
TotalStopsBothWays(offer, p) == offer.stops_out + offer.stops_return

\* _total_stops
_total_stops(offer, p) ==
    IF p.trip_structure = "One-way"
    THEN offer.stops_out
    ELSE offer.stops_out + offer.stops_return

\* float(offer.total_price_usd or 1e9)
PriceOr1e9(offer) ==
    IF offer.total_price_usd # 0 THEN offer.total_price_usd ELSE PriceMissing

\* score_offer
score_offer(offer, p) ==
    PriceOr1e9(offer) + _total_stops(offer, p) * StopPenalty
        + _date_offset_days(offer, p) * DatePenalty

ScoredOffer(o, sc) == [offer |-> o, score |-> sc]

\* The mutant: an element is placed before the elements of equal key.
InsertBeforeEqual(sorted, x) ==
    LET n == Cardinality({i \in 1..Len(sorted) : sorted[i].score < x.score})
    IN  SubSeq(sorted, 1, n) \o <<x>> \o SubSeq(sorted, n + 1, Len(sorted))

\* list.sort(key=score) is stable: an element goes after every element
\* whose key is less than or equal to its own.
InsertByScore(sorted, x) ==
    LET n == Cardinality({i \in 1..Len(sorted) : sorted[i].score <= x.score})
    IN  SubSeq(sorted, 1, n) \o <<x>> \o SubSeq(sorted, n + 1, Len(sorted))

RECURSIVE SortFrom(_, _, _)
SortFrom(L, i, sorted) ==
    IF i > Len(L) THEN sorted ELSE SortFrom(L, i + 1, InsertByScore(sorted, L[i]))

\* score_offers
score_offers(L, p) ==
    SortFrom([i \in 1..Len(L) |-> ScoredOffer(L[i], score_offer(L[i], p))], 1, <<>>)

\* pick_recommended
pick_recommended(sc) == IF Len(sc) = 0 THEN NoneVal ELSE sc[1]

\* The mutant: the later of two offers of equal price wins.
MinStepLast(cur, o) == IF PriceOr1e9(o) <= PriceOr1e9(cur) THEN o ELSE cur

\* One step of min(offers, key=...): the first minimal element is kept.
MinStep(cur, o) == IF PriceOr1e9(o) < PriceOr1e9(cur) THEN o ELSE cur

RECURSIVE MinFrom(_, _, _)
MinFrom(L, i, cur) ==
    IF i > Len(L) THEN cur ELSE MinFrom(L, i + 1, MinStep(cur, L[i]))

\* pick_best_by_price
pick_best_by_price(L) == IF Len(L) = 0 THEN NoneVal ELSE MinFrom(L, 2, L[1])

(***************************************************************************)
(* services/fx_rate_services.py                                            *)
(* A rate is held in hundredths: RateOne is 1.0.  A UTC day is two         *)
(* consecutive instants of the clock.                                      *)
(***************************************************************************)
RateOne == 100
NoRate == -1

\* ts_utc.strftime("%Y-%m-%d")
Day(ts) == ts \div 2

Currencies == {"USD", "EUR"}

\* _resolve_pair_to_usd
_resolve_pair_to_usd(c) == c \o "/USD"

\* p.replace("/", "") of a pair built by _resolve_pair_to_usd
NoSlash(pair) ==
    LET c == CHOOSE x \in Currencies : _resolve_pair_to_usd(x) = pair
    IN  c \o "USD"

\* The mutant: the form without separator is tried first.
CandidateSymbolsFallbackFirst(pair) == <<NoSlash(pair), pair>>

\* _candidate_symbols: the canonical form, then the form without separator
_candidate_symbols(pair) == <<pair, NoSlash(pair)>>

\* The mutant: the cache never answers.
CacheAlwaysMiss(cache, pair, day) == NoRate

\* _cache_get_daily: the rate of the row of key (pair, day), or None
_cache_get_daily(cache, pair, day) ==
    IF \E e \in cache : e.pair = pair /\ e.day_utc = day
    THEN (CHOOSE e \in cache : e.pair = pair /\ e.day_utc = day).rate
    ELSE NoRate

\* _cache_put_daily: INSERT OR REPLACE on the primary key (pair, day_utc)
_cache_put_daily(cache, pair, day, rate) ==
    {e \in cache : ~(e.pair = pair /\ e.day_utc = day)}
        \cup {[pair |-> pair, day_utc |-> day, rate |-> rate]}

\* The usable points of a series: a date and a numeric close.
Cleaned(values) ==
    LET Usable(v) == v.datetime # NoneDT /\ v.close # NoRate
    IN  SelectSeq(values, Usable)

\* The mutant: the points stay in the order of the response.
NoSortByDate(L, i, sorted) == L

\* cleaned.sort(key=lambda x: x[0]): stable, ascending by date
RECURSIVE SortByDate(_, _, _)
SortByDate(L, i, sorted) ==
    IF i > Len(L) THEN sorted
    ELSE LET n == Cardinality({k \in 1..Len(sorted) : sorted[k].datetime <= L[i].datetime})
         IN  SortByDate(L, i + 1,
                 SubSeq(sorted, 1, n) \o <<L[i]>> \o SubSeq(sorted, n + 1, Len(sorted)))

\* _pick_rate_for_day: the close of the last point on or before the day,
\* else the close of the earliest point, else None
_pick_rate_for_day(values, day) ==
    LET cleaned == SortByDate(Cleaned(values), 1, <<>>)
        IsCandidate(v) == v.datetime <= day
        candidates == SelectSeq(cleaned, IsCandidate)
    IN  IF Len(candidates) > 0 THEN candidates[Len(candidates)].close
        ELSE IF Len(cleaned) > 0 THEN cleaned[1].close
        ELSE NoRate

\* The request of the series of a symbol that ends on a day, as the
\* upstream knows it.
RequestKey(sym, day) == sym \o "@" \o ToString(day)

\* What the upstream answers to the request of lines 100-112 for a symbol
\* and the window that ends on the day: its answer to that request when it
\* has one of its own, else its answer for the symbol.
Served(up, sym, day) ==
    IF RequestKey(sym, day) \in DOMAIN up THEN up[RequestKey(sym, day)] ELSE up[sym]

\* One pass of the loop of _fetch_daily_rate_from_twelvedata over a symbol:
\* the request of _fetch_daily_series_from_twelvedata (it raises on a
\* request error or an error status) and the choice of the rate.
RateFromSymbol(up, sym, day) ==
    IF Served(up, sym, day).ok
    THEN _pick_rate_for_day(Served(up, sym, day).values, day)
    ELSE NoRate

\* The exception the pass over a symbol ends with, "" when it yields a rate:
\* the one of the request (raise_for_status, line 116; error status, line
\* 120) or the RuntimeError of line 175 for a series without usable point.
ErrFromSymbol(up, sym, day) ==
    IF ~Served(up, sym, day).ok THEN Served(up, sym, day).err \o " " \o sym
    ELSE IF _pick_rate_for_day(Served(up, sym, day).values, day) = NoRate
         THEN "RuntimeError no values " \o sym
    ELSE ""

\* The mutant: the error names the pair and the last error, not the day.
FetchErrorNoDay(pair, day, last_err) ==
    [pair |-> pair, day |-> NoneDT, last_err |-> last_err]

\* The RuntimeError of lines 181-182.
FetchError(pair, day, last_err) ==
    [pair |-> pair, day |-> day, last_err |-> last_err]

NoError == [pair |-> "", day |-> NoneDT, last_err |-> ""]

\* A request of the daily series of a symbol, as an I/O event.
Request(sym) == "request " \o sym

\* _fetch_daily_rate_from_twelvedata: the first symbol form that yields a
\* rate; a RuntimeError (ok = FALSE) naming the last error when none does.
\* io lists the upstream requests made.
_fetch_daily_rate_from_twelvedata(up, pair, day) ==
    LET syms == _candidate_symbols(pair)
        r1 == RateFromSymbol(up, syms[1], day)
        r2 == RateFromSymbol(up, syms[2], day)
    IN  IF r1 # NoRate
        THEN [ok |-> TRUE, rate |-> r1, err |-> NoError, io |-> <<Request(syms[1])>>]
        ELSE IF r2 # NoRate
        THEN [ok |-> TRUE, rate |-> r2, err |-> NoError,
              io |-> <<Request(syms[1]), Request(syms[2])>>]
        ELSE [ok |-> FALSE, rate |-> NoRate,
              err |-> FetchError(pair, day, ErrFromSymbol(up, syms[2], day)),
              io |-> <<Request(syms[1]), Request(syms[2])>>]

\* currency.upper().strip() on the currency texts of the model
UpperStrip(s) ==
    CASE s = "usd" -> "USD"
      [] s = " USD " -> "USD"
      [] s = "eur" -> "EUR"
      [] OTHER -> s

\* c of line 192
NormalCurrency(currency) == IF currency = "" THEN "USD" ELSE UpperStrip(currency)

\* Lines 205-207: the outcome of a call that missed the cache, from the
\* outcome of the fetch.
AfterFetch(cache, pair, day, fetched) ==
    IF fetched.ok
    THEN [ok |-> TRUE, rate |-> fetched.rate,
          cache |-> _cache_put_daily(cache, pair, day, fetched.rate),
          err |-> NoError,
          io |-> <<"cache_get">> \o fetched.io \o <<"cache_put">>]
    ELSE [ok |-> FALSE, rate |-> NoRate, cache |-> cache, err |-> fetched.err,
          io |-> <<"cache_get">> \o fetched.io]

\* Lines 201-207: the outcome of a call for a pair, from the cache read.
AfterCacheRead(cache, up, pair, day, cached) ==
    IF cached # NoRate
    THEN [ok |-> TRUE, rate |-> cached, cache |-> cache, err |-> NoError,
          io |-> <<"cache_get">>]
    ELSE AfterFetch(cache, pair, day, _fetch_daily_rate_from_twelvedata(up, pair, day))

\* The mutant: USD is recognised after the cache read.
GetRateUsdAfterCacheRead(cache, up, currency, ts) ==
    IF NormalCurrency(currency) = "USD"
    THEN AfterCacheRead(cache, up, "USD/USD", Day(ts), RateOne)
    ELSE AfterCacheRead(cache, up, _resolve_pair_to_usd(NormalCurrency(currency)), Day(ts),
                        _cache_get_daily(cache, _resolve_pair_to_usd(NormalCurrency(currency)),
                                         Day(ts)))

\* get_rate_to_usd: the rate, the cache after the call and the I/O done
get_rate_to_usd(cache, up, currency, ts) ==
    IF NormalCurrency(currency) = "USD"
    THEN [ok |-> TRUE, rate |-> RateOne, cache |-> cache, err |-> NoError,
          io |-> <<>>]
    ELSE AfterCacheRead(cache, up, _resolve_pair_to_usd(NormalCurrency(currency)), Day(ts),
                        _cache_get_daily(cache, _resolve_pair_to_usd(NormalCurrency(currency)),
                                         Day(ts)))

\* float(amount) * float(rate), in hundredths, for the outcome r of
\* get_rate_to_usd
Times(amount, r) ==
    [ok |-> r.ok, usd |-> IF r.ok THEN amount * r.rate ELSE 0,
     cache |-> r.cache, err |-> r.err, io |-> r.io]

\* amount_to_usd
amount_to_usd(cache, up, amount, currency, ts) ==
    Times(amount, get_rate_to_usd(cache, up, currency, ts))

(***************************************************************************)
(* services/amadeus_client.py                                              *)
(* Time is in seconds.  A call of get is given the responses the token     *)
(* endpoint and the resource endpoint will send, in the order of the       *)
(* requests; log lists the requests the call made with their responses.    *)
(***************************************************************************)
\* the margin of _token_is_valid
EarlyRefresh == 60

\* _token_is_valid
_token_is_valid(c, t) ==
    c.access_token # "" /\ t < c.token_expiry_epoch - EarlyRefresh

\* _fetch_token: raises on a status other than 200, else stores the token
\* and its expiry
_fetch_token(c, t, resp) ==
    IF resp.status # 200 THEN [raised |-> TRUE, client |-> c]
    ELSE [raised |-> FALSE,
          client |-> [access_token |-> "token", token_expiry_epoch |-> t + resp.expires_in]]

TokenEvent(resp) == [req |-> "token", status |-> resp.status, expires_in |-> resp.expires_in]
GetEvent(status) == [req |-> "get", status |-> status, expires_in |-> 0]

\* _get_auth_header: a token is requested only when none is valid
_get_auth_header(c, t, toks) ==
    IF _token_is_valid(c, t)
    THEN [raised |-> FALSE, client |-> c, log |-> <<>>, toks |-> toks]
    ELSE LET f == _fetch_token(c, t, Head(toks))
         IN  [raised |-> f.raised, client |-> f.client,
              log |-> <<TokenEvent(Head(toks))>>, toks |-> Tail(toks)]

\* The mutant: any error status is retried.
RetryOnAnyError(status) == status >= 400

\* resp.status_code == 401 (line 85)
ShouldRetry(status) == status = 401

\* resp.raise_for_status(); return resp.json()
Finish(c, log, status) ==
    [raised |-> status >= 400, status |-> status, client |-> c, log |-> log]

\* a token request of the call failed
TokenFailure(c, log) == [raised |-> TRUE, status |-> 0, client |-> c, log |-> log]

\* AmadeusClient.get
get(c, t, toks, resps) ==
    LET h1 == _get_auth_header(c, t, toks)
        log1 == h1.log \o <<GetEvent(resps[1])>>
        f == _fetch_token(h1.client, t, Head(h1.toks))
        log2 == log1 \o <<TokenEvent(Head(h1.toks))>>
        h2 == _get_auth_header(f.client, t, Tail(h1.toks))
        log3 == log2 \o h2.log
    IN  IF h1.raised THEN TokenFailure(h1.client, h1.log)
        ELSE IF ~ShouldRetry(resps[1]) THEN Finish(h1.client, log1, resps[1])
        ELSE IF f.raised THEN TokenFailure(f.client, log2)
        ELSE IF h2.raised THEN TokenFailure(h2.client, log3)
        ELSE Finish(h2.client, log3 \o <<GetEvent(resps[2])>>, resps[2])

(***************************************************************************)
(* sqlite_history_store.py                                                 *)
(***************************************************************************)
\* date.isoformat()
IsoDate(n) == "D" \o ToString(n)

\* The instants of the model: the clock of the store, and three UTC days.
Instants == 0..(MaxClock + 3)

\* The instant an ISO text denotes, None when it denotes none
\* (pd.to_datetime(..., errors="coerce", utc=True)).
ParseTs(text) ==
    IF \E t \in Instants : IsoDT(t) = text
    THEN CHOOSE t \in Instants : IsoDT(t) = text
    ELSE NoneDT

\* _d_to_str raises AttributeError on a truthy value that is no date.
DToStrRaises(v) == v.k \notin {"none", "date"}

\* _d_to_str(d) or ""
_d_to_str(v) == IF v.k = "date" THEN IsoDate(v.d) ELSE ""

\* The text built from the segment chain (lines 38-52).
ChainSignature(offer) ==
    Join("||", [i \in 1..Len(offer.itineraries) |-> ItinPart(offer.itineraries[i])])

\* offer_signature raises when the fallback reads a date field that is no date
SignatureRaises(offer) ==
    /\ ChainSignature(offer) = ""
    /\ DToStrRaises(offer.departure_date) \/ DToStrRaises(offer.return_date)

\* offer_signature(offer)
offer_signature(offer) ==
    IF ChainSignature(offer) # "" THEN ChainSignature(offer)
    ELSE Join("|", <<offer.origin, offer.destination,
                     _d_to_str(offer.departure_date),
                     _d_to_str(offer.return_date),
                     offer.airline,
                     ToString(offer.stops_out),
                     ToString(offer.stops_return)>>)

DefaultTopN == 30
DefaultHistoryLimit == 500
DefaultTrendDays == 365
DefaultLimit == 5000

\* float(a.total_price_usd or 1e18) <= float(b.total_price_usd or 1e18):
\* every price of the model is below 1e18, the key of a missing (falsy) price.
PriceKeyLeq(a, b) ==
    \/ b.total_price_usd = 0
    \/ a.total_price_usd # 0 /\ a.total_price_usd <= b.total_price_usd

\* The mutant: the offers are kept in the order given.
NoSortByPrice(sorted, o) == Append(sorted, o)

\* One insertion of sorted(offers, key=price): stable
InsertByPrice(sorted, o) ==
    LET n == Cardinality({i \in 1..Len(sorted) : PriceKeyLeq(sorted[i], o)})
    IN  SubSeq(sorted, 1, n) \o <<o>> \o SubSeq(sorted, n + 1, Len(sorted))

RECURSIVE SortByPriceFrom(_, _, _)
SortByPriceFrom(L, i, sorted) ==
    IF i > Len(L) THEN sorted
    ELSE SortByPriceFrom(L, i + 1, InsertByPrice(sorted, L[i]))

Max(a, b) == IF a > b THEN a ELSE b
Min(a, b) == IF a < b THEN a ELSE b

\* offers_sorted[: max(1, int(top_n))]
offers_to_log(offs, top_n) ==
    LET offers_sorted == SortByPriceFrom(offs, 1, <<>>)
    IN  SubSeq(offers_sorted, 1, Min(Len(offers_sorted), Max(1, top_n)))

\* The mutant: the row takes its departure date from the offer.
RowOfOfferDate(o, ctx, search_ts) ==
    LET has_seg == Len(o.itineraries) > 0 /\ Len(o.itineraries[1].segments) > 0
        first_seg == o.itineraries[1].segments[1]
    IN  [search_ts |-> IsoDT(search_ts),
         provider |-> o.provider,
         origin |-> ctx.origin,
         destination |-> ctx.destination,
         trip_structure |-> ctx.trip_structure,
         departure_date |-> IsoDate(o.departure_date.d),
         return_date |-> IF ctx.return_date # NoneDT THEN IsoDate(ctx.return_date) ELSE "",
         passengers |-> ctx.passengers,
         max_stops_label |-> ctx.max_stops_label,
         flexible_dates |-> IF ctx.flexible_dates THEN 1 ELSE 0,
         airline_code |-> o.airline,
         airline_name |-> o.airline_name,
         flight_number |-> IF has_seg THEN first_seg.flight_number ELSE "",
         dep_time |-> IF has_seg /\ first_seg.dep_at # NoneDT
                      THEN IsoDT(first_seg.dep_at) ELSE "",
         arr_time |-> IF has_seg /\ first_seg.arr_at # NoneDT
                      THEN IsoDT(first_seg.arr_at) ELSE "",
         stops_out |-> o.stops_out,
         stops_return |-> o.stops_return,
         price_usd |-> o.total_price_usd,
         currency |-> IF o.currency = "" THEN "USD" ELSE o.currency,
         offer_signature |-> offer_signature(o)]

\* The tuple of lines 166-187.
Row(o, ctx, search_ts) ==
    LET has_seg == Len(o.itineraries) > 0 /\ Len(o.itineraries[1].segments) > 0
        first_seg == o.itineraries[1].segments[1]
    IN  [search_ts |-> IsoDT(search_ts),
         provider |-> o.provider,
         origin |-> ctx.origin,
         destination |-> ctx.destination,
         trip_structure |-> ctx.trip_structure,
         departure_date |-> IsoDate(ctx.departure_date),
         return_date |-> IF ctx.return_date # NoneDT THEN IsoDate(ctx.return_date) ELSE "",
         passengers |-> ctx.passengers,
         max_stops_label |-> ctx.max_stops_label,
         flexible_dates |-> IF ctx.flexible_dates THEN 1 ELSE 0,
         airline_code |-> o.airline,
         airline_name |-> o.airline_name,
         flight_number |-> IF has_seg THEN first_seg.flight_number ELSE "",
         dep_time |-> IF has_seg /\ first_seg.dep_at # NoneDT
                      THEN IsoDT(first_seg.dep_at) ELSE "",
         arr_time |-> IF has_seg /\ first_seg.arr_at # NoneDT
                      THEN IsoDT(first_seg.arr_at) ELSE "",
         stops_out |-> o.stops_out,
         stops_return |-> o.stops_return,
         price_usd |-> o.total_price_usd,
         currency |-> IF o.currency = "" THEN "USD" ELSE o.currency,
         offer_signature |-> offer_signature(o)]

\* The mutant: the rows replace the table.
InsertReplacing(tbl, rows) == rows

\* conn.executemany(INSERT INTO price_observations ...)
InsertRows(tbl, rows) == tbl \o rows

\* The mutant: no early return for an empty list; the insert of no row
\* still opens the connection.
AppendNoEmptyCheck(tbl, offs, ctx, search_ts, top_n) ==
    LET kept == offers_to_log(offs, top_n)
        rows == [i \in 1..Len(kept) |-> Row(kept[i], ctx, search_ts)]
    IN  IF \E i \in 1..Len(kept) : SignatureRaises(kept[i])
        THEN [raised |-> TRUE, value |-> 0, wrote |-> FALSE, table |-> tbl]
        ELSE [raised |-> FALSE, value |-> Len(rows), wrote |-> TRUE,
              table |-> InsertRows(tbl, rows)]

\* append_offers: the outcome and the table after the call
append_offers(tbl, offs, ctx, search_ts, top_n) ==
    LET kept == offers_to_log(offs, top_n)
        rows == [i \in 1..Len(kept) |-> Row(kept[i], ctx, search_ts)]
    IN  IF Len(offs) = 0
        THEN [raised |-> FALSE, value |-> 0, wrote |-> FALSE, table |-> tbl]
        ELSE IF \E i \in 1..Len(kept) : SignatureRaises(kept[i])
        THEN [raised |-> TRUE, value |-> 0, wrote |-> FALSE, table |-> tbl]
        ELSE [raised |-> FALSE, value |-> Len(rows), wrote |-> TRUE,
              table |-> InsertRows(tbl, rows)]

\* WHERE origin = ? AND destination = ? AND departure_date = ?
Matching(tbl, q) ==
    LET Test(r) == /\ r.origin = q.origin /\ r.destination = q.destination
                   /\ r.departure_date = IsoDate(q.departure_date)
    IN  SelectSeq(tbl, Test)

\* ORDER BY search_ts ASC: the texts are ISO instants of one format, whose
\* text order is the order of the instants; rows of equal search_ts are
\* left in rowid order.
RECURSIVE OrderByTs(_, _, _)
OrderByTs(L, i, sorted) ==
    IF i > Len(L) THEN sorted
    ELSE LET n == Cardinality({k \in 1..Len(sorted) :
                       ParseTs(sorted[k].search_ts) <= ParseTs(L[i].search_ts)})
         IN  OrderByTs(L, i + 1,
                 SubSeq(sorted, 1, n) \o <<L[i]>> \o SubSeq(sorted, n + 1, Len(sorted)))

\* ... LIMIT ?
Limit(L, n) == SubSeq(L, 1, Min(Len(L), n))

\* The rows a query fetches.
Fetch(tbl, q) == Limit(OrderByTs(Matching(tbl, q), 1, <<>>), q.limit)

\* get_route_history
get_route_history(tbl, q) ==
    LET rows == Fetch(tbl, q)
    IN  [i \in 1..Len(rows) |->
            [search_datetime |-> rows[i].search_ts,
             price_usd |-> rows[i].price_usd,
             currency |-> rows[i].currency,
             airline_name |-> rows[i].airline_name,
             airline_code |-> rows[i].airline_code,
             flight_number |-> rows[i].flight_number,
             dep_time |-> rows[i].dep_time,
             arr_time |-> rows[i].arr_time,
             stops_out |-> rows[i].stops_out,
             stops_return |-> rows[i].stops_return,
             offer_signature |-> rows[i].offer_signature]]

\* The elements of a finite set of numbers in ascending order.
RECURSIVE Ascending(_)
Ascending(S) ==
    IF S = {} THEN <<>>
    ELSE LET m == CHOOSE x \in S : \A y \in S : x <= y
         IN  <<m>> \o Ascending(S \ {m})

\* The mutant: the largest amount of the day.
MaxOfSet(S) == CHOOSE x \in S : \A y \in S : x >= y

MinOf(S) == CHOOSE x \in S : \A y \in S : x <= y

\* the UTC day of a row's search_ts (substr(search_ts, 1, 10) in SQL,
\* dt.strftime("%Y-%m-%d") in pandas)
DayOfRow(r) == Day(ParseTs(r.search_ts))

\* the rows of rows observed on day d
OfDay(rows, d) == {i \in 1..Len(rows) : DayOfRow(rows[i]) = d}

\* get_market_trend: GROUP BY substr(search_ts, 1, 10) on the stored amounts
get_market_trend(tbl, q) ==
    LET rows == Matching(tbl, q)
        days == Ascending({DayOfRow(rows[i]) : i \in 1..Len(rows)})
    IN  Limit([k \in 1..Len(days) |->
                 [search_day |-> days[k],
                  min_price_usd |-> MinOf({rows[i].price_usd : i \in OfDay(rows, days[k])}),
                  observations |-> Cardinality(OfDay(rows, days[k]))]],
              q.limit)

\* The mutant: every row is converted at the instant of the first row.
RECURSIVE ConvertFromFirstDay(_, _, _, _, _)
RECURSIVE ConvertedFirstDay(_, _, _, _, _)
ConvertedFirstDay(rows, i, up, out, r) ==
    IF ~r.ok
    THEN [raised |-> TRUE, cache |-> r.cache, usd |-> <<>>, err |-> r.err,
          calls |-> out.calls + 1, io |-> out.io \o r.io]
    ELSE ConvertFromFirstDay(rows, i + 1, r.cache, up,
                             [usd |-> Append(out.usd, r.usd),
                              calls |-> out.calls + 1, io |-> out.io \o r.io])

ConvertFromFirstDay(rows, i, cache, up, out) ==
    IF i > Len(rows)
    THEN [raised |-> FALSE, cache |-> cache, usd |-> out.usd, err |-> NoError,
          calls |-> out.calls, io |-> out.io]
    ELSE ConvertedFirstDay(rows, i, up, out,
                           amount_to_usd(cache, up, rows[i].price_usd, rows[i].currency,
                                         ParseTs(rows[1].search_ts)))

\* df.apply(_to_usd, axis=1): the rows in order; the first failing
\* conversion raises, the cache rows written before it stay.  calls counts
\* the calls of amount_to_usd, io lists the I/O they did.
RECURSIVE ConvertFrom(_, _, _, _, _)

\* row i is converted with outcome r: a failure raises, a success goes on
\* with the next row
RECURSIVE Converted(_, _, _, _, _)
Converted(rows, i, up, out, r) ==
    IF ~r.ok
    THEN [raised |-> TRUE, cache |-> r.cache, usd |-> <<>>, err |-> r.err,
          calls |-> out.calls + 1, io |-> out.io \o r.io]
    ELSE ConvertFrom(rows, i + 1, r.cache, up,
                     [usd |-> Append(out.usd, r.usd),
                      calls |-> out.calls + 1, io |-> out.io \o r.io])

ConvertFrom(rows, i, cache, up, out) ==
    IF i > Len(rows)
    THEN [raised |-> FALSE, cache |-> cache, usd |-> out.usd, err |-> NoError,
          calls |-> out.calls, io |-> out.io]
    ELSE Converted(rows, i, up, out,
                   amount_to_usd(cache, up, rows[i].price_usd, rows[i].currency,
                                 ParseTs(rows[i].search_ts)))

\* The mutant: two days are still too few to aggregate.
IsRawModeUpToTwo(n_days) == n_days <= 2

\* n_days <= 1 (line 332)
IsRawMode(n_days) == n_days <= 1

\* Lines 332-342: the raw rows, or one row per day
TrendSeries(df, usd, days) ==
    IF IsRawMode(Len(days))
    THEN [mode |-> "raw",
          series |-> [i \in 1..Len(df) |->
                        [search_datetime |-> ParseTs(df[i].search_ts),
                         price_usd |-> usd[i],
                         currency |-> df[i].currency,
                         observations |-> 1]]]
    ELSE [mode |-> "daily",
          series |-> [k \in 1..Len(days) |->
                        [search_day |-> days[k],
                         min_price_usd |-> MinOf({usd[i] : i \in OfDay(df, days[k])}),
                         observations |-> Cardinality(OfDay(df, days[k]))]]]

\* the outcome from the converted prices conv and the series out
TrendOutcome(conv, out) ==
    [raised |-> FALSE, mode |-> out.mode, series |-> out.series, cache |-> conv.cache,
     err |-> NoError, fx_calls |-> conv.calls, fx_io |-> conv.io]

\* The mutant: a failing conversion ends the series instead of the call.
TrendConvertedSoFar(df, conv) ==
    TrendOutcome(conv,
                 TrendSeries(SubSeq(df, 1, Len(conv.usd)), conv.usd,
                             Ascending({DayOfRow(df[i]) : i \in 1..Len(conv.usd)})))

\* Lines 326-342: the rows are converted; a failing conversion raises
TrendConverted(df, conv) ==
    IF conv.raised
    THEN [raised |-> TRUE, mode |-> "", series |-> <<>>, cache |-> conv.cache,
          err |-> conv.err, fx_calls |-> conv.calls, fx_io |-> conv.io]
    ELSE TrendOutcome(conv,
                      TrendSeries(df, conv.usd,
                                  Ascending({DayOfRow(df[i]) : i \in 1..Len(df)})))

\* Lines 316-342, from the rows df whose search_ts parses
TrendOf(df, cache, up) ==
    IF Len(df) = 0
    THEN [raised |-> FALSE, mode |-> "raw", series |-> <<>>, cache |-> cache,
          err |-> NoError, fx_calls |-> 0, fx_io |-> <<>>]
    ELSE TrendConverted(df, ConvertFrom(df, 1, cache, up,
                                        [usd |-> <<>>, calls |-> 0, io |-> <<>>]))

\* a row whose search_ts pd.to_datetime(errors="coerce") accepts
Parsed(r) == ParseTs(r.search_ts) # NoneDT

\* get_market_trend_usd_dual: the outcome and the FX cache after the call
get_market_trend_usd_dual(tbl, q, cache, up) ==
    TrendOf(SelectSeq(Fetch(tbl, q), Parsed), cache, up)

(***************************************************************************)
(* The offers of the deduplication runs.                                   *)
(***************************************************************************)
DedupItins == { <<>>, <<Itinerary("OUT", <<>>)>>, <<Itinerary("OUT", <<S1>>)>> }

DedupPool ==
    { Offer(pa[1], DateVal(1), NoneVal, pa[2], so, 0, price, pa[3], its) :
        pa \in {<<"amadeus", "AA", "EUR">>, <<"mock", "DL", "USD">>},
        so \in {0, 1}, price \in {250, 300}, its \in DedupItins }

NoRet == [op |-> "none"]

OfferZ == Offer("mock", DateVal(1), NoneVal, "AA", 0, 0, 0, "USD", <<>>)
OfferE == Offer("amadeus", DateVal(1), NoneVal, "AA", 0, 0, 250, "EUR",
                <<Itinerary("OUT", <<S1>>)>>)
OfferM == Offer("mock", DateVal(1), NoneVal, "AA", 0, 0, 300, "USD", <<>>)
\* an offer of csv_provider.py: no itinerary, return_date the file's text
OfferC == Offer("csv", DateVal(1), TextVal(8), "UA", 0, 0, 200, "USD", <<>>)

StorePool == {OfferZ, OfferE, OfferM, OfferC}

CtxPool ==
    { [origin |-> "SJU", destination |-> "JFK", trip_structure |-> "One-way",
       departure_date |-> d, return_date |-> NoneDT, passengers |-> 1,
       max_stops_label |-> "Up to 1 stop", flexible_dates |-> FALSE] : d \in {1, 2} }

TopNPool == {0, 1, DefaultTopN}

QueryPool(default) ==
    { [origin |-> "SJU", destination |-> "JFK", departure_date |-> d, limit |-> l] :
        d \in {1, 2}, l \in {1, default} }

Symbols == {"EUR/USD", "EURUSD"}

UpDown == [sym \in Symbols |-> [ok |-> FALSE, err |-> "HTTPError", values |-> <<>>]]
UpOk ==
    [sym \in Symbols |->
        IF sym = "EUR/USD"
        THEN [ok |-> TRUE, err |-> "",
              values |-> <<[datetime |-> 1, close |-> 130],
                           [datetime |-> 0, close |-> 110]>>]
        ELSE [ok |-> FALSE, err |-> "ValueError", values |-> <<>>]]

UpstreamPool == {UpDown, UpOk}

\* an upstream that answers the requests for day 0 and fails afterwards
UpLate ==
    [key \in Symbols \cup {RequestKey(sym, d) : sym \in Symbols, d \in {1, 2}} |->
        IF key = "EUR/USD"
        THEN [ok |-> TRUE, err |-> "", values |-> <<[datetime |-> 0, close |-> 110]>>]
        ELSE [ok |-> FALSE, err |-> "HTTPError", values |-> <<>>]]

InitStoreVars ==
    /\ table = <<>> /\ now = 0 /\ fx_cache = {} /\ ret = NoRet
    /\ fx_up \in UpstreamPool

InitDedupVars == deduped = <<>> /\ deduped2 = <<>>

\* no FX call made, no page shown, a client without token
NoCall == [pair |-> "", day |-> NoneDT, requests |-> 0, ok |-> FALSE]
Sessions == {1, 2}
IdleSession == [pc |-> "idle", currency |-> "", ts |-> 0, rate |-> NoRate]
\* "" is a card of the page that has not been rendered
NoUi ==
    [error |-> "", warning |-> "", stopped |-> FALSE, shown |-> FALSE,
     recommended_price |-> "", trend |-> "", best_fare |-> "",
     rows |-> <<>>, fx_io |-> <<>>]
NoClient == [access_token |-> "", token_expiry_epoch |-> 0]

InitServiceVars ==
    /\ fx_prev = NoCall
    /\ sess = [s \in Sessions |-> IdleSession]
    /\ ui = NoUi
    /\ client = NoClient

InitScoreVars ==
    /\ params = [trip_structure |-> "One-way", departure_date |-> 1]
    /\ scored = <<>> /\ recommended = NoneVal /\ best_price = NoneVal

InitDedup ==
    /\ pc = "start"
    /\ offers \in SeqUpTo(DedupPool, MaxOffers)
    /\ InitDedupVars /\ InitScoreVars /\ InitStoreVars /\ InitServiceVars

\* search(): return _dedup_offers(results)
Dedup ==
    /\ pc = "start"
    /\ deduped' = _dedup_offers(offers)
    /\ pc' = "deduped"
    /\ UNCHANGED <<serviceVars, offers, deduped2, scoreVars, storeVars>>

\* the result handed to _dedup_offers once more
DedupAgain ==
    /\ pc = "deduped"
    /\ deduped2' = _dedup_offers(deduped)
    /\ pc' = "deduped2"
    /\ UNCHANGED <<serviceVars, offers, deduped, scoreVars, storeVars>>

NextDedup == Dedup \/ DedupAgain

SpecDedup == InitDedup /\ [][NextDedup]_vars

(***************************************************************************)
(* The scoring runs: streamlit_app.py lines 247-250.                       *)
(***************************************************************************)
ScorePool ==
    { Offer("mock", DateVal(dep), NoneVal, "AA", so, sr, price, "USD", <<>>) :
        dep \in {1, 2}, so \in {0, 1}, sr \in {0, 1}, price \in {0, 250, 300} }

ParamsPool ==
    { [trip_structure |-> ts, departure_date |-> 1] : ts \in {"One-way", "Roundtrip"} }

InitScore ==
    /\ pc = "start"
    /\ offers \in SeqUpTo(ScorePool, MaxOffers)
    /\ params \in ParamsPool
    /\ scored = <<>> /\ recommended = NoneVal /\ best_price = NoneVal
    /\ InitDedupVars /\ InitStoreVars /\ InitServiceVars

\* scored = score_offers(offers_objects, params_obj)
ScoreOffers ==
    /\ pc = "start"
    /\ scored' = score_offers(offers, params)
    /\ pc' = "scored"
    /\ UNCHANGED <<serviceVars, offers, dedupVars, params, recommended, best_price, storeVars>>

\* recommended_scored = pick_recommended(scored)
PickRecommended ==
    /\ pc = "scored"
    /\ recommended' = pick_recommended(scored)
    /\ pc' = "recommended"
    /\ UNCHANGED <<serviceVars, offers, dedupVars, params, scored, best_price, storeVars>>

\* best_global = pick_best_by_price(offers_objects)
PickBestByPrice ==
    /\ pc = "recommended"
    /\ best_price' = pick_best_by_price(offers)
    /\ pc' = "picked"
    /\ UNCHANGED <<serviceVars, offers, dedupVars, params, scored, recommended, storeVars>>

NextScore == ScoreOffers \/ PickRecommended \/ PickBestByPrice

SpecScore == InitScore /\ [][NextScore]_vars

(***************************************************************************)
(* The history store: calls of SqlitePriceHistoryStore, one at a time.     *)
(***************************************************************************)
InitStore ==
    /\ pc = "idle"
    /\ offers = <<>>
    /\ InitDedupVars /\ InitScoreVars /\ InitStoreVars /\ InitServiceVars

\* history_store.append_offers(offers, origin=..., ..., top_n=...)
AppendOffers ==
    /\ pc = "idle"
    /\ Len(table) < MaxRows
    /\ \E offs \in SeqUpTo(StorePool, MaxBatch), ctx \in CtxPool, top_n \in TopNPool :
          LET r == append_offers(table, offs, ctx, now, top_n)
          IN  /\ Len(r.table) <= MaxRows
              /\ table' = r.table
              /\ ret' = [op |-> "append_offers", offers |-> offs, ctx |-> ctx,
                         top_n |-> top_n, search_ts |-> now, raised |-> r.raised,
                         value |-> r.value, wrote |-> r.wrote]
    /\ pc' = "returned"
    /\ UNCHANGED <<serviceVars, offers, dedupVars, scoreVars, now, fx_cache, fx_up>>

\* history_store.get_route_history(origin, destination, departure_date, limit)
GetRouteHistory ==
    /\ pc = "idle"
    /\ \E q \in QueryPool(DefaultHistoryLimit) :
          ret' = [op |-> "get_route_history", q |-> q, raised |-> FALSE,
                  value |-> get_route_history(table, q)]
    /\ pc' = "returned"
    /\ UNCHANGED <<serviceVars, offers, dedupVars, scoreVars, table, now, fx_cache, fx_up>>

\* history_store.get_market_trend(origin, destination, departure_date, limit_days)
GetMarketTrend ==
    /\ pc = "idle"
    /\ \E q \in QueryPool(DefaultTrendDays) :
          ret' = [op |-> "get_market_trend", q |-> q, raised |-> FALSE,
                  value |-> get_market_trend(table, q)]
    /\ pc' = "returned"
    /\ UNCHANGED <<serviceVars, offers, dedupVars, scoreVars, table, now, fx_cache, fx_up>>

\* the call for query q ends with outcome r
TrendReturns(q, r) ==
    /\ ret' = [op |-> "get_market_trend_usd_dual", q |-> q,
               raised |-> r.raised, mode |-> r.mode, value |-> r.series,
               err |-> r.err, fx_calls |-> r.fx_calls, fx_io |-> r.fx_io]
    /\ fx_cache' = r.cache

\* history_store.get_market_trend_usd_dual(origin, destination,
\* departure_date, fx_service, limit)
GetMarketTrendUsdDual ==
    /\ pc = "idle"
    /\ \E q \in QueryPool(DefaultLimit) :
          TrendReturns(q, get_market_trend_usd_dual(table, q, fx_cache, fx_up))
    /\ pc' = "returned"
    /\ UNCHANGED <<serviceVars, offers, dedupVars, scoreVars, table, now, fx_up>>

\* the caller takes the outcome
Return ==
    /\ pc = "returned"
    /\ pc' = "idle"
    /\ ret' = NoRet
    /\ UNCHANGED <<serviceVars, offers, dedupVars, scoreVars, table, now, fx_cache, fx_up>>

\* time passes between two calls
Tick ==
    /\ pc = "idle"
    /\ now < MaxClock
    /\ now' = now + 1
    /\ UNCHANGED <<serviceVars, pc, offers, dedupVars, scoreVars, table, fx_cache, fx_up, ret>>

NextStore ==
    \/ AppendOffers \/ GetRouteHistory \/ GetMarketTrend \/ GetMarketTrendUsdDual
    \/ Return \/ Tick

SpecStore == InitStore /\ [][NextStore]_vars

(***************************************************************************)
(* Trend queries over a stored observation table.  The table is a file     *)
(* that outlives the process: it holds rows of earlier runs, in any order  *)
(* of search_ts (append_offers takes search_ts from its caller), and may   *)
(* hold a row whose search_ts no parser accepts.                           *)
(***************************************************************************)
\* a search_ts text that pd.to_datetime coerces to NaT; it sorts first
BadTs == ""

TrendCtx(d) ==
    [origin |-> "SJU", destination |-> "JFK", trip_structure |-> "One-way",
     departure_date |-> d, return_date |-> NoneDT, passengers |-> 1,
     max_stops_label |-> "Up to 1 stop", flexible_dates |-> FALSE]

\* instants on three UTC days: two on day 0, one on day 1, one on day 2
TrendInstants == {0, 1, 2, 4}

TrendRowPool ==
    { [Row(o, TrendCtx(1), 0) EXCEPT !.search_ts = text] :
        o \in {OfferE, OfferM}, text \in {IsoDT(t) : t \in TrendInstants} \cup {BadTs} }
    \cup { Row(OfferM, TrendCtx(2), 0) }

InitTrend ==
    /\ pc = "idle"
    /\ offers = <<>>
    /\ InitDedupVars /\ InitScoreVars /\ InitServiceVars
    /\ table \in SeqUpTo(TrendRowPool, MaxTrendRows)
    /\ now = 0 /\ fx_cache = {} /\ ret = NoRet
    /\ fx_up \in UpstreamPool \cup {UpLate}

NextTrend == GetMarketTrendUsdDual \/ Return

SpecTrend == InitTrend /\ [][NextTrend]_vars

(***************************************************************************)
(* FxRateService called by one caller: get_rate_to_usd and amount_to_usd   *)
(* run to completion; the upstream answers may change between two calls.   *)
(***************************************************************************)
\* the currency texts handed to the service; "" stands for None
FxCurrencies == {"USD", "usd", " USD ", "", "EUR", "eur"}

\* instants of the UTC days 5 and 6
FxInstants == {10, 12}

Point(d, c) == [datetime |-> d, close |-> c]
Answer(values) == [ok |-> TRUE, err |-> "", values |-> values]
Failure(err) == [ok |-> FALSE, err |-> err, values |-> <<>>]
Upstream(canonical, noslash) ==
    [sym \in Symbols |-> IF sym = "EUR/USD" THEN canonical ELSE noslash]

\* What the upstream may answer: the newest point first, as the provider
\* sends it; points of the target days; points only 5 and 2 days before
\* day 6; points only after the target days; points lacking a date or a
\* close; a request error, an error status, an empty series and a series
\* without usable point; both symbol forms answering, with different closes.
FxUpstreamPool ==
    { Upstream(Answer(<<Point(6, 130), Point(5, 110)>>), Failure("ValueError")),
      Upstream(Answer(<<Point(4, 108), Point(1, 105)>>), Failure("ValueError")),
      Upstream(Answer(<<Point(8, 140), Point(7, 135)>>), Failure("ValueError")),
      Upstream(Answer(<<Point(NoneDT, 999), Point(6, NoRate), Point(5, 115)>>),
               Failure("ValueError")),
      Upstream(Failure("HTTPError"), Answer(<<Point(6, 125)>>)),
      Upstream(Failure("ValueError"), Answer(<<>>)),
      Upstream(Answer(<<Point(NoneDT, 999)>>), Failure("HTTPError")),
      Upstream(Answer(<<Point(6, 130)>>), Answer(<<Point(6, 131)>>)) }

\* The upstream requests among the I/O events of a call.
Requests(io) == Cardinality({i \in 1..Len(io) : \E sym \in Symbols : io[i] = Request(sym)})

InitFx ==
    /\ pc = "idle"
    /\ offers = <<>>
    /\ InitDedupVars /\ InitScoreVars /\ InitServiceVars
    /\ table = <<>> /\ now = 0 /\ fx_cache = {} /\ ret = NoRet
    /\ fx_up \in FxUpstreamPool

\* fx_service.get_rate_to_usd(currency, ts)
GetRateToUsd ==
    /\ pc = "idle"
    /\ \E currency \in FxCurrencies, ts \in FxInstants :
          LET r == get_rate_to_usd(fx_cache, fx_up, currency, ts)
          IN  /\ ret' = [op |-> "get_rate_to_usd", currency |-> currency, ts |-> ts,
                         ok |-> r.ok, rate |-> r.rate, err |-> r.err, io |-> r.io]
              /\ fx_cache' = r.cache
    /\ pc' = "returned"
    /\ UNCHANGED <<offers, dedupVars, scoreVars, table, now, fx_up, fx_prev, sess, ui, client>>

\* fx_service.amount_to_usd(amount, currency, ts)
AmountToUsd ==
    /\ pc = "idle"
    /\ \E amount \in {250}, currency \in FxCurrencies, ts \in FxInstants :
          LET r == amount_to_usd(fx_cache, fx_up, amount, currency, ts)
          IN  /\ ret' = [op |-> "amount_to_usd", amount |-> amount,
                         currency |-> currency, ts |-> ts,
                         ok |-> r.ok, usd |-> r.usd, err |-> r.err, io |-> r.io]
              /\ fx_cache' = r.cache
    /\ pc' = "returned"
    /\ UNCHANGED <<offers, dedupVars, scoreVars, table, now, fx_up, fx_prev, sess, ui, client>>

\* the caller takes the outcome; the call becomes the previous one
FxReturn ==
    /\ pc = "returned"
    /\ pc' = "idle"
    /\ fx_prev' = [pair |-> _resolve_pair_to_usd(NormalCurrency(ret.currency)),
                   day |-> Day(ret.ts), requests |-> Requests(ret.io), ok |-> ret.ok]
    /\ ret' = NoRet
    /\ UNCHANGED <<offers, dedupVars, scoreVars, table, now, fx_cache, fx_up, sess, ui, client>>

\* the upstream provider answers differently from now on
FxUpstreamChanges ==
    /\ pc = "idle"
    /\ fx_up' \in FxUpstreamPool \ {fx_up}
    /\ UNCHANGED <<pc, offers, dedupVars, scoreVars, table, now, fx_cache, ret, serviceVars>>

NextFx == GetRateToUsd \/ AmountToUsd \/ FxReturn \/ FxUpstreamChanges

SpecFx == InitFx /\ [][NextFx]_vars

(***************************************************************************)
(* FxRateService called by several sessions on one cache file.  A call of  *)
(* get_rate_to_usd is a sequence of I/O steps: the cache read (line 201),  *)
(* one upstream request per symbol form (line 171) and the cache write     *)
(* (line 206); the steps of different sessions interleave.                 *)
(***************************************************************************)
\* The close of the running day 6 moves between two requests.
RaceUpstreamPool ==
    { Upstream(Answer(<<Point(6, 130), Point(5, 110)>>), Failure("ValueError")),
      Upstream(Answer(<<Point(6, 131), Point(5, 110)>>), Failure("ValueError")),
      Upstream(Failure("HTTPError"), Answer(<<Point(6, 125)>>)),
      Upstream(Failure("HTTPError"), Failure("HTTPError")) }

InitFxRace ==
    /\ pc = "idle"
    /\ offers = <<>>
    /\ InitDedupVars /\ InitScoreVars /\ InitServiceVars
    /\ table = <<>> /\ now = 0 /\ fx_cache = {} /\ ret = NoRet
    /\ fx_up \in RaceUpstreamPool

raceFrame == <<pc, offers, dedupVars, scoreVars, table, now, ret, fx_prev, ui, client>>

SessKey(s) ==
    [pair |-> _resolve_pair_to_usd(NormalCurrency(sess[s].currency)),
     day |-> Day(sess[s].ts)]

\* get_rate_to_usd up to the cache read: lines 192-203
SessCall(s) ==
    /\ sess[s].pc = "idle"
    /\ \E currency \in {"USD", "EUR"}, ts \in FxInstants :
          LET c == NormalCurrency(currency)
              cached == _cache_get_daily(fx_cache, _resolve_pair_to_usd(c), Day(ts))
              call == [currency |-> currency, ts |-> ts]
          IN  sess' = [sess EXCEPT ![s] =
                  IF c = "USD" THEN call @@ [pc |-> "returned", rate |-> RateOne]
                  ELSE IF cached # NoRate THEN call @@ [pc |-> "returned", rate |-> cached]
                  ELSE call @@ [pc |-> "fetch1", rate |-> NoRate]]
    /\ UNCHANGED <<raceFrame, fx_cache, fx_up>>

\* one pass of the loop of _fetch_daily_rate_from_twelvedata: lines 169-179
SessRequest(s) ==
    /\ sess[s].pc \in {"fetch1", "fetch2"}
    /\ LET syms == _candidate_symbols(SessKey(s).pair)
           sym == IF sess[s].pc = "fetch1" THEN syms[1] ELSE syms[2]
           r == RateFromSymbol(fx_up, sym, SessKey(s).day)
       IN  sess' = [sess EXCEPT ![s].rate = r,
                                ![s].pc = IF r # NoRate THEN "put"
                                          ELSE IF sess[s].pc = "fetch1" THEN "fetch2"
                                          ELSE "raised"]
    /\ UNCHANGED <<raceFrame, fx_cache, fx_up>>

\* self._cache_put_daily(pair, day_utc, rate): line 206
SessPut(s) ==
    /\ sess[s].pc = "put"
    /\ fx_cache' = _cache_put_daily(fx_cache, SessKey(s).pair, SessKey(s).day, sess[s].rate)
    /\ sess' = [sess EXCEPT ![s].pc = "returned"]
    /\ UNCHANGED <<raceFrame, fx_up>>

\* the call returns (line 203 or 207) or raises (line 181)
SessReturn(s) ==
    /\ sess[s].pc \in {"returned", "raised"}
    /\ sess' = [sess EXCEPT ![s] = IdleSession]
    /\ UNCHANGED <<raceFrame, fx_cache, fx_up>>

\* the upstream provider answers differently from now on
RaceUpstreamChanges ==
    /\ fx_up' \in RaceUpstreamPool \ {fx_up}
    /\ UNCHANGED <<raceFrame, fx_cache, sess>>

NextFxRace ==
    \/ \E s \in Sessions : SessCall(s) \/ SessRequest(s) \/ SessPut(s) \/ SessReturn(s)
    \/ RaceUpstreamChanges

SpecFxRace == InitFxRace /\ [][NextFxRace]_vars

(***************************************************************************)
(* streamlit_app.py: one search request, lines 219-250 and the display.    *)
(***************************************************************************)
\* The mutant: the error is shown and the request goes on.
ShowSearchFailure(u) == [u EXCEPT !.error = "Failed to fetch offers"]

\* except Exception: st.error(...); st.stop() (lines 222-224)
OnSearchFailure(u) == [u EXCEPT !.error = "Failed to fetch offers", !.stopped = TRUE]

\* if not offers_objects: st.warning(...); st.stop() (lines 226-228)
OnSearchResult(u, offs) ==
    IF offs = <<>>
    THEN [u EXCEPT !.warning = "No offers found for this search.", !.stopped = TRUE]
    ELSE u

\* The mutant: the failure of the append is reported and ends the request.
ShowAppendFailure(u) == [u EXCEPT !.error = "Failed to log history", !.stopped = TRUE]

\* except Exception: pass (lines 244-245)
OnAppendFailure(u) == u

\* The keyword arguments of lines 234-241.
FlowCtx(p) ==
    [origin |-> "SJU", destination |-> "JFK", trip_structure |-> p.trip_structure,
     departure_date |-> p.departure_date, return_date |-> NoneDT, passengers |-> 1,
     max_stops_label |-> "Up to 1 stop", flexible_dates |-> FALSE]

\* offer_total_usd(offer, fx_service, ts) (lines 65-72)
offer_total_usd(cache, up, offer, ts) ==
    amount_to_usd(cache, up, offer.total_price_usd,
                  IF offer.currency = "" THEN "USD" ELSE offer.currency, ts)

\* round(x) of an amount in hundredths, half to even
RoundHalfEven(h) ==
    IF h % 100 > 50 \/ (h % 100 = 50 /\ (h \div 100) % 2 = 1)
    THEN h \div 100 + 1
    ELSE h \div 100

\* fmt_usd(x) (lines 40-44)
fmt_usd(x) == "$" \o ToString(RoundHalfEven(x))

\* The mutant: a failed conversion shows the offer's own amount.
MetricOwnAmount(offer, r) ==
    IF r.ok THEN fmt_usd(r.usd) ELSE fmt_usd(offer.total_price_usd * RateOne)

\* The value of the metric of lines 286-292 and 394-402.
Metric(offer, r) == IF r.ok THEN fmt_usd(r.usd) ELSE "USD unavailable"

\* Lines 326-387: what the trend section shows
TrendSection(r) ==
    IF r.raised THEN "History trend unavailable"
    ELSE IF Len(r.series) = 0 THEN "No historical price data"
    ELSE r.mode

\* the text o.provider ... dep_iso of lines 417-435
DisplayFallbackSig(o) ==
    LET has_seg == Len(o.itineraries) > 0 /\ Len(o.itineraries[1].segments) > 0
    IN  Join("|", <<o.provider, o.origin, o.destination,
                    StrOfDateField(o.departure_date), StrOfDateField(o.return_date),
                    o.airline, ToString(o.stops_out), ToString(o.stops_return),
                    IF has_seg THEN o.itineraries[1].segments[1].flight_number ELSE "",
                    IF has_seg /\ o.itineraries[1].segments[1].dep_at # NoneDT
                    THEN IsoDT(o.itineraries[1].segments[1].dep_at) ELSE "">>)

\* sig of lines 413-435: the offer_signature of the offer when it has one
DisplaySig(o) ==
    IF "offer_signature" \in DOMAIN o /\ o.offer_signature # ""
    THEN o.offer_signature
    ELSE DisplayFallbackSig(o)

\* One iteration of the loop of lines 411-439.
DisplayStep(kept, sc) ==
    IF ~\E j \in 1..Len(kept) : DisplaySig(kept[j].offer) = DisplaySig(sc.offer)
    THEN Append(kept, sc)
    ELSE [j \in 1..Len(kept) |->
            IF DisplaySig(kept[j].offer) = DisplaySig(sc.offer) /\ sc.score < kept[j].score
            THEN sc ELSE kept[j]]

RECURSIVE DisplayDedupFrom(_, _, _)
\* dedup_scored (line 441)
DisplayDedupFrom(L, i, kept) ==
    IF i > Len(L) THEN kept ELSE DisplayDedupFrom(L, i + 1, DisplayStep(kept, L[i]))

\* str.upper() of a currency text
Upper(text) ==
    CASE text = "usd" -> "USD"
      [] text = "eur" -> "EUR"
      [] OTHER -> text

\* cur of line 458
RowCurrency(o) == Upper(IF o.currency = "" THEN "USD" ELSE o.currency)

\* fx_rate_by_currency = {} (line 444)
NoRates == [c \in Currencies |-> NoRate]

\* a table row under construction: usd is None (NoRate) after a failure
TableRow(sc, usd) == [offer |-> sc.offer, score |-> sc.score, usd |-> usd]

\* sort_values(by=["Price (USD)", "Score"], na_position="last"): a row with
\* no price goes after every row with one
RowLeq(a, b) ==
    \/ b.usd = NoRate
    \/ a.usd # NoRate /\ a.usd < b.usd
    \/ a.usd # NoRate /\ a.usd = b.usd /\ a.score <= b.score

InsertRow(sorted, x) ==
    LET n == Cardinality({i \in 1..Len(sorted) : RowLeq(sorted[i], x)})
    IN  SubSeq(sorted, 1, n) \o <<x>> \o SubSeq(sorted, n + 1, Len(sorted))

RECURSIVE SortRowsFrom(_, _, _)
SortRowsFrom(L, i, sorted) ==
    IF i > Len(L) THEN sorted ELSE SortRowsFrom(L, i + 1, InsertRow(sorted, L[i]))

\* the "Price (USD)" cell of lines 493-494
PriceCell(row) ==
    [offer |-> row.offer, score |-> row.score,
     price |-> IF row.usd = NoRate THEN "" ELSE fmt_usd(row.usd)]

\* the table under construction: the rates of the render, the FX cache,
\* the rows and the I/O of the FX calls
RECURSIVE TableFrom(_, _, _, _, _)

\* row i got its rate by the call with outcome r (lines 459-466)
RECURSIVE TableFetched(_, _, _, _, _, _)
TableFetched(L, i, up, ts, acc, r) ==
    TableFrom(L, i + 1, up, ts,
        [rates |-> IF r.ok THEN [acc.rates EXCEPT ![RowCurrency(L[i].offer)] = r.rate]
                   ELSE acc.rates,
         cache |-> r.cache,
         rows |-> Append(acc.rows,
                     TableRow(L[i], IF r.ok THEN L[i].offer.total_price_usd * r.rate
                                    ELSE NoRate)),
         io |-> acc.io \o r.io])

TableFrom(L, i, up, ts, acc) ==
    IF i > Len(L) THEN acc
    ELSE IF acc.rates[RowCurrency(L[i].offer)] # NoRate
    THEN TableFrom(L, i + 1, up, ts,
             [acc EXCEPT !.rows =
                 Append(acc.rows,
                     TableRow(L[i], L[i].offer.total_price_usd
                                        * acc.rates[RowCurrency(L[i].offer)]))])
    ELSE TableFetched(L, i, up, ts, acc,
                      get_rate_to_usd(acc.cache, up, RowCurrency(L[i].offer), ts))

\* Lines 406-496: the candidate table
CandidateTable(sc, cache, up, ts) ==
    TableFrom(DisplayDedupFrom(sc, 1, <<>>), 1, up, ts,
              [rates |-> NoRates, cache |-> cache, rows |-> <<>>, io |-> <<>>])

\* results_df as displayed
TableCells(rows) ==
    [i \in 1..Len(rows) |-> PriceCell(SortRowsFrom(rows, 1, <<>>)[i])]

InitFlow ==
    /\ pc = "start"
    /\ offers = <<>>
    /\ params \in ParamsPool
    /\ scored = <<>> /\ recommended = NoneVal /\ best_price = NoneVal
    /\ InitDedupVars /\ InitStoreVars /\ InitServiceVars

\* lines 219-228: the provider raises, finds nothing, or returns offers
FlowSearch ==
    /\ pc = "start"
    /\ \/ /\ ui' = OnSearchFailure(ui)
          /\ UNCHANGED offers
       \/ \E offs \in SeqUpTo(StorePool, MaxBatch) :
             /\ offers' = offs
             /\ ui' = OnSearchResult(ui, offs)
    /\ pc' = IF ui'.stopped THEN "stopped" ELSE "searched"
    /\ UNCHANGED <<dedupVars, scoreVars, storeVars, fx_prev, sess, client>>

\* lines 231-245: the append of the offers, which raises when the store
\* raises (a signature that cannot be built) or the database cannot be
\* written (db_ok = FALSE: sqlite3.OperationalError)
FlowAppend ==
    /\ pc = "searched"
    /\ \E db_ok \in BOOLEAN :
          LET r == append_offers(table, offers, FlowCtx(params), now, DefaultTopN)
              raised == r.raised \/ ~db_ok
          IN  /\ table' = IF raised THEN table ELSE r.table
              /\ ret' = [op |-> "append_offers", raised |-> raised,
                         value |-> IF raised THEN 0 ELSE r.value]
              /\ ui' = IF raised THEN OnAppendFailure(ui) ELSE ui
              /\ pc' = IF ui'.stopped THEN "stopped" ELSE "logged"
    /\ UNCHANGED <<offers, dedupVars, scoreVars, now, fx_cache, fx_up, fx_prev, sess, client>>

\* lines 247-250
FlowScore ==
    /\ pc = "logged"
    /\ scored' = score_offers(offers, params)
    /\ recommended' = pick_recommended(scored')
    /\ best_price' = pick_best_by_price(offers)
    /\ pc' = "scored"
    /\ UNCHANGED <<offers, dedupVars, params, storeVars, serviceVars>>

\* line 252 on: the cards of the page are rendered
FlowDisplay ==
    /\ pc = "scored"
    /\ ui' = [ui EXCEPT !.shown = TRUE]
    /\ pc' = "displayed"
    /\ UNCHANGED <<offers, dedupVars, scoreVars, storeVars, fx_prev, sess, client>>

NextFlow == FlowSearch \/ FlowAppend \/ FlowScore \/ FlowDisplay

SpecFlow == InitFlow /\ [][NextFlow]_vars

(***************************************************************************)
(* streamlit_app.py: the request with the rendering of its page, lines     *)
(* 219-496.  The observation table may hold a row of an earlier day.       *)
(***************************************************************************)
\* a row logged one day after the instant of the request, in EUR
EarlierRow(p) == Row(OfferE, FlowCtx(p), 2)

InitPage ==
    /\ pc = "start"
    /\ offers = <<>>
    /\ params \in ParamsPool
    /\ scored = <<>> /\ recommended = NoneVal /\ best_price = NoneVal
    /\ InitDedupVars /\ InitServiceVars
    /\ table \in {<<>>, <<EarlierRow(params)>>}
    /\ now = 0 /\ fx_cache = {} /\ ret = NoRet
    /\ fx_up \in UpstreamPool

\* the price of the recommended card is rendered from the conversion r
RecommendedRendered(r) ==
    /\ ui' = [ui EXCEPT !.recommended_price = Metric(recommended.offer, r),
                        !.fx_io = ui.fx_io \o r.io]
    /\ fx_cache' = r.cache

\* lines 256-307: the recommended card
PageRecommended ==
    /\ pc = "scored"
    /\ RecommendedRendered(offer_total_usd(fx_cache, fx_up, recommended.offer, now))
    /\ pc' = "recommended"
    /\ UNCHANGED <<offers, dedupVars, scoreVars, table, now, fx_up, ret,
                   fx_prev, sess, client>>

\* the trend section is rendered from the outcome r of the trend call
TrendRendered(r) ==
    /\ ui' = [ui EXCEPT !.trend = TrendSection(r), !.fx_io = ui.fx_io \o r.fx_io]
    /\ fx_cache' = r.cache

\* lines 325-387: the historical trend
PageTrend ==
    /\ pc = "recommended"
    /\ TrendRendered(get_market_trend_usd_dual(table,
           [origin |-> "SJU", destination |-> "JFK",
            departure_date |-> params.departure_date, limit |-> DefaultLimit],
           fx_cache, fx_up))
    /\ pc' = "trend"
    /\ UNCHANGED <<offers, dedupVars, scoreVars, table, now, fx_up, ret,
                   fx_prev, sess, client>>

\* the best-fare card is rendered from the conversion r
BestRendered(r) ==
    /\ ui' = [ui EXCEPT !.best_fare = Metric(best_price, r),
                        !.fx_io = ui.fx_io \o r.io]
    /\ fx_cache' = r.cache

\* lines 391-404: the best global fare
PageBest ==
    /\ pc = "trend"
    /\ BestRendered(offer_total_usd(fx_cache, fx_up, best_price, now))
    /\ pc' = "best"
    /\ UNCHANGED <<offers, dedupVars, scoreVars, table, now, fx_up, ret,
                   fx_prev, sess, client>>

\* the table is displayed from the rows t
TableRendered(t) ==
    /\ ui' = [ui EXCEPT !.rows = TableCells(t.rows), !.fx_io = ui.fx_io \o t.io,
                        !.shown = TRUE]
    /\ fx_cache' = t.cache

\* lines 406-496: the candidate table
PageTable ==
    /\ pc = "best"
    /\ TableRendered(CandidateTable(scored, fx_cache, fx_up, now))
    /\ pc' = "displayed"
    /\ UNCHANGED <<offers, dedupVars, scoreVars, table, now, fx_up, ret,
                   fx_prev, sess, client>>

NextPage ==
    \/ FlowSearch \/ FlowAppend \/ FlowScore
    \/ PageRecommended \/ PageTrend \/ PageBest \/ PageTable

SpecPage == InitPage /\ [][NextPage]_vars

(***************************************************************************)
(* AmadeusClient.get called by the provider while time passes.             *)
(***************************************************************************)
\* What the token endpoint may answer: a refusal, a token that is valid
\* for one minute, a token that is valid for three minutes.
TokenResponses ==
    { [status |-> 401, expires_in |-> 0],
      [status |-> 200, expires_in |-> 60],
      [status |-> 200, expires_in |-> 180] }

\* What the resource endpoint may answer.
Statuses == {200, 401, 500}

InitClient ==
    /\ pc = "idle"
    /\ offers = <<>>
    /\ InitDedupVars /\ InitScoreVars /\ InitServiceVars
    /\ table = <<>> /\ now = 0 /\ fx_cache = {} /\ ret = NoRet
    /\ fx_up = UpDown

\* self.client.get(path, params)
ClientGet ==
    /\ pc = "idle"
    /\ \E toks \in [1..3 -> TokenResponses], resps \in [1..2 -> Statuses] :
          LET r == get(client, now, toks, resps)
          IN  /\ client' = r.client
              /\ ret' = [op |-> "get", raised |-> r.raised, status |-> r.status,
                         log |-> r.log, before |-> client, at |-> now]
    /\ pc' = "returned"
    /\ UNCHANGED <<offers, dedupVars, scoreVars, table, now, fx_cache, fx_up,
                   fx_prev, sess, ui>>

\* a minute passes between two calls
ClientTick ==
    /\ pc = "idle"
    /\ now < 60 * MaxClientTicks
    /\ now' = now + 60
    /\ UNCHANGED <<pc, offers, dedupVars, scoreVars, table, fx_cache, fx_up, ret,
                   serviceVars>>

NextClient == ClientGet \/ Return \/ ClientTick

SpecClient == InitClient /\ [][NextClient]_vars

(***************************************************************************)
(* A live search request: AmadeusProvider.search, then the append of its   *)
(* offers under the search context and the history queries of the page.    *)
(***************************************************************************)
\* a segment of a payload; at is the text of its departure
RawSegment(at) ==
    [departure |-> [iataCode |-> "SJU", at |-> at],
     arrival |-> [iataCode |-> "JFK", at |-> ""],
     carrierCode |-> "AA", number |-> "100"]

\* one flight, offered at the price the upstream quotes for the query
RawDirect(total) ==
    [price |-> [grandTotal |-> total, total |-> "", currency |-> "EUR"],
     itineraries |-> <<[segments |-> <<RawSegment(IsoDT(8))>>]>>,
     validatingAirlineCodes |-> <<"AA">>]

\* an offer without itinerary, priced by "total" alone
RawBare ==
    [price |-> [grandTotal |-> "", total |-> "300", currency |-> "USD"],
     itineraries |-> <<>>, validatingAirlineCodes |-> <<>>]

\* an offer of two stops whose first departure text is malformed
RawTwoStops ==
    [price |-> [grandTotal |-> "250", total |-> "", currency |-> "USD"],
     itineraries |-> <<[segments |-> <<RawSegment("soon"), RawSegment(IsoDT(7)),
                                        RawSegment(IsoDT(9))>>]>>,
     validatingAirlineCodes |-> <<>>]

Payload(data) == [raised |-> FALSE, err |-> "", data |-> data]
Raises(err) == [raised |-> TRUE, err |-> err, data |-> <<>>]

\* the requested departure date and the dates of range(-3, 4) around it
RequestedDay == 5
SearchDays == {ToString(RequestedDay + d) : d \in FirstDelta..LastDelta}

\* what the upstream answers for a departureDate, by kind
AnswerOf(kind, day) ==
    IF kind = "direct"
    THEN Payload(<<RawDirect(IF day = ToString(RequestedDay) THEN "300" ELSE "250")>>)
    ELSE IF kind = "mixed" THEN Payload(<<RawBare, RawTwoStops>>)
    ELSE IF kind = "none" THEN Payload(<<>>)
    ELSE IF kind = "malformed" THEN Payload(<<RawDirect("250"), RawDirect("abc")>>)
    ELSE Raises(kind)

\* upstreams that answer every date, and upstreams that fail for one date
\* by the network, by authentication or by a malformed price
ProviderUpstreams ==
    LET Good == [SearchDays -> {"direct", "mixed"}] \cup {[d \in SearchDays |-> "none"]}
        Kinds == {[g EXCEPT ![bad] = how] :
                     g \in Good, bad \in SearchDays,
                     how \in {"ConnectionError", "HTTPError", "malformed"}}
    IN  {[d \in SearchDays |-> AnswerOf(k[d], d)] : k \in Good \cup Kinds}

\* the SearchParams of the request (lines 179-192)
ProviderParamsPool ==
    { [origin |-> "SJU", destination |-> "JFK", trip_structure |-> tr[1],
       departure_date |-> RequestedDay, return_date |-> tr[2], passengers |-> 1,
       max_stops |-> ms, flexible_dates |-> fl] :
        tr \in {<<"One-way", NoneDT>>, <<"Roundtrip", 7>>, <<"Roundtrip", NoneDT>>},
        ms \in {"Nonstop only", "Up to 1 stop"}, fl \in BOOLEAN }

\* The keyword arguments of lines 234-241.
HistoryCtx(p) ==
    [origin |-> p.origin, destination |-> p.destination,
     trip_structure |-> p.trip_structure, departure_date |-> p.departure_date,
     return_date |-> p.return_date, passengers |-> p.passengers,
     max_stops_label |-> p.max_stops, flexible_dates |-> p.flexible_dates]

\* the route query of the page for the request
RouteQuery(p, limit) ==
    [origin |-> p.origin, destination |-> p.destination,
     departure_date |-> p.departure_date, limit |-> limit]

InitProvider ==
    /\ pc = "start"
    /\ offers = <<>>
    /\ params \in ProviderParamsPool
    /\ scored = <<>> /\ recommended = NoneVal /\ best_price = NoneVal
    /\ InitDedupVars /\ InitServiceVars
    /\ table = <<>> /\ now = 0 /\ fx_cache = {} /\ ret = NoRet
    /\ fx_up = UpDown

\* the search of line 221 ends with outcome r
SearchReturns(up, r) ==
    /\ ret' = [op |-> "search", up |-> up, raised |-> r.raised, err |-> r.err,
               value |-> r.offers, log |-> r.log]
    /\ offers' = r.offers
    /\ pc' = IF r.raised \/ r.offers = <<>> THEN "stopped" ELSE "searched"

\* provider.search(params_obj) (line 221)
ProviderSearch ==
    /\ pc = "start"
    /\ \E up \in ProviderUpstreams : SearchReturns(up, search(params, up))
    /\ UNCHANGED <<dedupVars, scoreVars, table, now, fx_cache, fx_up, serviceVars>>

\* the append of lines 231-243 ends with outcome r
AppendReturns(r) ==
    /\ table' = r.table
    /\ ret' = [op |-> "append_offers", offers |-> offers, ctx |-> HistoryCtx(params),
               top_n |-> DefaultTopN, search_ts |-> now, raised |-> r.raised,
               value |-> r.value, wrote |-> r.wrote]
    /\ pc' = "logged"

\* history_store.append_offers(offers_objects, ..., top_n=30)
ProviderAppend ==
    /\ pc = "searched"
    /\ AppendReturns(append_offers(table, offers, HistoryCtx(params), now, DefaultTopN))
    /\ UNCHANGED <<offers, dedupVars, scoreVars, now, fx_cache, fx_up, serviceVars>>

\* the history and the trend of the route, read for the requested date
ProviderHistory ==
    /\ pc = "logged"
    /\ ret' = [op |-> "history", raised |-> FALSE,
               value |-> get_route_history(table, RouteQuery(params, DefaultHistoryLimit)),
               trend |-> get_market_trend(table, RouteQuery(params, DefaultTrendDays))]
    /\ pc' = "read"
    /\ UNCHANGED <<offers, dedupVars, scoreVars, table, now, fx_cache, fx_up, serviceVars>>

NextProvider == ProviderSearch \/ ProviderAppend \/ ProviderHistory

SpecProvider == InitProvider /\ [][NextProvider]_vars

(***************************************************************************)
(* Deduplication: C1 .. C4                                                 *)
(***************************************************************************)
Sigs(L) == {_offer_signature(L[i]) : i \in 1..Len(L)}

HasSegment(offer) ==
    \E i \in 1..Len(offer.itineraries) : Len(offer.itineraries[i].segments) > 0

\* C1: deduplicating the result of a deduplication returns the same list,
\* same representatives in the same order.
C1_DedupIdempotent == pc = "deduped2" => deduped2 = deduped

\* C1 witness: a second pass over a result in which a collision replaced the
\* offer seen first and a second signature is present.
C1_Witness ==
    /\ pc = "deduped2"
    /\ Len(deduped) = 2
    /\ Len(offers) = 3
    /\ deduped[1] = offers[3]

\* C2: the result holds exactly one offer per signature of the input, and
\* every offer of the result is an offer of the input.
C2_OnePerSignature ==
    pc \in {"deduped", "deduped2"} =>
        /\ \A i, j \in 1..Len(deduped) :
              _offer_signature(deduped[i]) = _offer_signature(deduped[j]) => i = j
        /\ Sigs(deduped) = Sigs(offers)
        /\ \A i \in 1..Len(deduped) : \E j \in 1..Len(offers) : deduped[i] = offers[j]

\* C2 witness: three offers over two signatures give two representatives.
C2_Witness ==
    /\ pc = "deduped"
    /\ Len(offers) = 3
    /\ Cardinality(Sigs(offers)) = 2
    /\ Len(deduped) = 2

\* The first input position holding an offer of signature sig and rank key k.
FirstAt(L, sig, k) ==
    CHOOSE i \in 1..Len(L) :
        /\ _offer_signature(L[i]) = sig /\ _offer_rank_key(L[i]) = k
        /\ \A j \in 1..(i - 1) :
              ~(_offer_signature(L[j]) = sig /\ _offer_rank_key(L[j]) = k)

\* C3: each representative has the smallest rank key among the input offers
\* of its signature, is the first input offer with that key, and has the
\* lowest price among them.
C3_BestRankKept ==
    pc \in {"deduped", "deduped2"} =>
        \A r \in 1..Len(deduped) :
            LET sig == _offer_signature(deduped[r])
                key == _offer_rank_key(deduped[r])
            IN  /\ \A i \in 1..Len(offers) :
                      _offer_signature(offers[i]) = sig =>
                          /\ ~RankLess(_offer_rank_key(offers[i]), key)
                          /\ deduped[r].total_price_usd <= offers[i].total_price_usd
                /\ deduped[r] = offers[FirstAt(offers, sig, key)]

\* C3 witness: of two colliding offers with equal stops the cheaper one,
\* seen second, is kept; and a tie on the rank key between different offers.
C3_Witness ==
    /\ pc = "deduped"
    /\ Len(offers) = 3
    /\ _offer_signature(offers[1]) = _offer_signature(offers[2])
    /\ _offer_signature(offers[1]) = _offer_signature(offers[3])
    /\ offers[1].stops_out = offers[2].stops_out
    /\ offers[2].total_price_usd < offers[1].total_price_usd
    /\ _offer_rank_key(offers[3]) = _offer_rank_key(offers[2])
    /\ offers[3] # offers[2]
    /\ deduped = <<offers[2]>>

SameSummary(a, b) ==
    /\ a.origin = b.origin /\ a.destination = b.destination
    /\ a.departure_date = b.departure_date /\ a.return_date = b.return_date
    /\ a.airline = b.airline
    /\ a.stops_out = b.stops_out /\ a.stops_return = b.stops_return

RelevantStops(o) ==
    IF params.trip_structure = "One-way" THEN o.stops_out
    ELSE o.stops_out + o.stops_return

Penalties(o) ==
    35 * RelevantStops(o) + 5 * Abs(o.departure_date.d - params.departure_date)

Count(L, x) == Cardinality({i \in 1..Len(L) : L[i] = x})

\* The offers of L whose score is v, in the order of L.
OffersScoring(L, v) ==
    LET Test(o) == score_offer(o, params) = v
    IN  SelectSeq(L, Test)

OfferA == Offer("mock", DateVal(1), NoneVal, "AA", 0, 0, 300, "USD", <<>>)
OfferB == Offer("mock", DateVal(2), NoneVal, "AA", 1, 0, 250, "USD", <<>>)

\* C6: score_offers returns one ScoredOffer per input offer, in
\* non-decreasing score order, equal scores in input order; pick_recommended
\* is the first element, or None for no offer; offers A and B of the
\* scenario on a one-way search put B first.
C6_SortedStableComplete ==
    /\ pc # "start" =>
          /\ Len(scored) = Len(offers)
          /\ \A i \in 1..Len(offers) :
                Count([k \in 1..Len(scored) |-> scored[k].offer], offers[i])
                    = Count(offers, offers[i])
          /\ \A i \in 1..Len(scored) :
                scored[i].score = score_offer(scored[i].offer, params)
          /\ \A i \in 1..(Len(scored) - 1) : scored[i].score <= scored[i + 1].score
          /\ \A i \in 1..Len(scored) :
                OffersScoring([k \in 1..Len(scored) |-> scored[k].offer], scored[i].score)
                    = OffersScoring(offers, scored[i].score)
    /\ pc \in {"recommended", "picked"} =>
          /\ offers = <<>> => recommended = NoneVal
          /\ offers # <<>> => recommended = scored[1]
          /\ (params.trip_structure = "One-way"
                /\ offers \in {<<OfferA, OfferB>>, <<OfferB, OfferA>>}) =>
                    /\ recommended = ScoredOffer(OfferB, 290)
                    /\ scored[2] = ScoredOffer(OfferA, 300)

\* C6 witness: the scenario, A given first and B recommended.
C6_Witness ==
    /\ pc = "recommended"
    /\ params.trip_structure = "One-way"
    /\ offers = <<OfferA, OfferB>>
    /\ recommended.offer = OfferB

\* C6 second witness data: a tie between different offers kept in input order.
C6_TieReached ==
    /\ pc = "scored"
    /\ Len(scored) = 3
    /\ scored[1].score = scored[2].score
    /\ scored[1].offer # scored[2].offer
    /\ scored[1].offer = offers[2] /\ scored[2].offer = offers[3]

\* C7 as stated: pick_best_by_price returns the first offer whose total
\* price is the minimum of the list, and None only for the empty list.
C7_BestIsMinimumPrice ==
    pc = "picked" =>
        /\ offers = <<>> <=> best_price = NoneVal
        /\ offers # <<>> =>
              \E i \in 1..Len(offers) :
                  /\ best_price = offers[i]
                  /\ \A j \in 1..Len(offers) :
                        offers[i].total_price_usd <= offers[j].total_price_usd
                  /\ \A j \in 1..(i - 1) :
                        offers[j].total_price_usd # offers[i].total_price_usd

EffectivePrice(o) == IF o.total_price_usd = 0 THEN 1000000000 ELSE o.total_price_usd

\* C7 amended: pick_best_by_price returns the first offer whose total price
\* is the minimum of the list, a total price of zero (a missing price)
\* counting as 1e9, independent of any score; None only for the empty list.
C7_BestIsMinimumNonZeroPrice ==
    pc = "picked" =>
        /\ offers = <<>> <=> best_price = NoneVal
        /\ offers # <<>> =>
              \E i \in 1..Len(offers) :
                  /\ best_price = offers[i]
                  /\ \A j \in 1..Len(offers) :
                        EffectivePrice(offers[i]) <= EffectivePrice(offers[j])
                  /\ \A j \in 1..(i - 1) :
                        EffectivePrice(offers[j]) # EffectivePrice(offers[i])

\* C7 witness: the cheapest offer is not the recommended one, and another
\* offer of the same price follows it in the list.
C7_Witness ==
    /\ pc = "picked"
    /\ Len(offers) = 3
    /\ best_price = offers[2]
    /\ offers[3].total_price_usd = offers[2].total_price_usd
    /\ offers[3] # offers[2]
    /\ offers[1].total_price_usd > offers[2].total_price_usd
    /\ offers[2].total_price_usd > 0
    /\ recommended.offer # best_price

(***************************************************************************)
(* History store: C8 .. C10                                                *)
(***************************************************************************)
RECURSIVE AscendingSeq(_, _, _)
\* The numbers of a sequence in ascending order.
AscendingSeq(L, i, sorted) ==
    IF i > Len(L) THEN sorted
    ELSE LET n == Cardinality({k \in 1..Len(sorted) : sorted[k] <= L[i]})
         IN  AscendingSeq(L, i + 1,
                 SubSeq(sorted, 1, n) \o <<L[i]>> \o SubSeq(sorted, n + 1, Len(sorted)))

PricesOf(L) == AscendingSeq([i \in 1..Len(L) |-> L[i].total_price_usd], 1, <<>>)
RowPrices(rows) == AscendingSeq([i \in 1..Len(rows) |-> rows[i].price_usd], 1, <<>>)

\* The step is a call of append_offers.
IsAppend == pc = "idle" /\ ret'.op = "append_offers"

\* The rows the step added.
NewRows == SubSeq(table', Len(table) + 1, Len(table'))

\* C8 as stated: a call with n > 0 offers and top_n >= 1 persists exactly
\* min(n, top_n) rows, returns that number, and the rows are those of the
\* min(n, top_n) offers of lowest total price.
C8_AppendKeepsCheapest ==
    [][(IsAppend /\ Len(ret'.offers) > 0 /\ ret'.top_n >= 1) =>
          LET k == Min(Len(ret'.offers), ret'.top_n)
          IN  /\ ~ret'.raised
              /\ ret'.value = k
              /\ Len(table') = Len(table) + k
              /\ RowPrices(NewRows) = SubSeq(PricesOf(ret'.offers), 1, k)]_vars

\* C9: a call with no offer returns 0, opens no write transaction and
\* leaves the table as it was.
C9_EmptyAppendWritesNothing ==
    [][(IsAppend /\ ret'.offers = <<>>) =>
          /\ ~ret'.raised
          /\ ret'.value = 0
          /\ ~ret'.wrote
          /\ table' = table]_vars

\* C9 witness: a call with no offer has returned 0 on a table holding rows.
C9_Witness ==
    /\ pc = "returned"
    /\ ret.op = "append_offers"
    /\ ret.offers = <<>>
    /\ ret.value = 0
    /\ Len(table) > 0

\* C10: every step keeps the rows of the table, in place and unchanged;
\* only append_offers adds rows, the three read calls leave the table as
\* it was.
C10_AppendOnly ==
    [][/\ Len(table') >= Len(table)
       /\ SubSeq(table', 1, Len(table)) = table
       /\ table' # table => IsAppend
       /\ (pc = "idle" /\ ret'.op \in {"get_route_history", "get_market_trend",
                                      "get_market_trend_usd_dual"}) => table' = table]_vars

\* C10 witness: after two appends at different instants a trend query has
\* written the FX cache and returned, the two rows in place.
C10_Witness ==
    /\ pc = "returned"
    /\ ret.op = "get_market_trend_usd_dual"
    /\ ~ret.raised
    /\ fx_cache # {}
    /\ Len(table) = 2
    /\ table[1].search_ts # table[2].search_ts

(***************************************************************************)
(* Trend in USD: C11 .. C13                                                *)
(***************************************************************************)
\* A trend query has returned or raised.
TrendDone == pc = "returned" /\ ret.op = "get_market_trend_usd_dual"

\* The fetched observations with a parseable timestamp.
Retained ==
    LET Parseable(r) == ParseTs(r.search_ts) # NoneDT
    IN  SelectSeq(Fetch(table, ret.q), Parseable)

\* The UTC days the retained observations fall on.
RetainedDays == {Day(ParseTs(Retained[i].search_ts)) : i \in 1..Len(Retained)}

\* C11: a trend query that returns has mode "daily" exactly when the
\* retained observations span more than one UTC day; otherwise the mode is
\* "raw" with one row per retained observation, in ascending timestamp
\* order, each with observations = 1.  With no retained observation (no row
\* for the route and date, or no parseable timestamp) it returns ("raw",
\* empty) without raising and without a call of the currency normalizer.
C11_TrendModeSwitch ==
    TrendDone =>
        /\ Len(Retained) = 0 =>
              /\ ~ret.raised
              /\ ret.mode = "raw"
              /\ ret.value = <<>>
              /\ ret.fx_calls = 0
              /\ ret.fx_io = <<>>
        /\ ~ret.raised =>
              /\ ret.mode \in {"raw", "daily"}
              /\ ret.mode = "daily" <=> Cardinality(RetainedDays) > 1
              /\ ret.mode = "raw" =>
                    /\ Len(ret.value) = Len(Retained)
                    /\ \A i \in 1..Len(Retained) :
                          /\ ret.value[i].search_datetime = ParseTs(Retained[i].search_ts)
                          /\ ret.value[i].observations = 1
                    /\ \A i, j \in 1..Len(ret.value) :
                          i < j => ret.value[i].search_datetime <= ret.value[j].search_datetime

\* C11 witness: a raw series of two observations of one day, stored in
\* descending timestamp order, beside a row without parseable timestamp.
C11_Witness ==
    /\ TrendDone /\ ~ret.raised /\ ret.mode = "raw"
    /\ Len(ret.value) = 2
    /\ ret.value[1].search_datetime < ret.value[2].search_datetime
    /\ \E i, j \in 1..Len(table) :
          /\ i < j
          /\ ParseTs(table[i].search_ts) > ParseTs(table[j].search_ts)
          /\ ParseTs(table[j].search_ts) # NoneDT
    /\ \E i \in 1..Len(table) : table[i].search_ts = BadTs

\* C11 witness of the empty case: rows are stored for the route and date,
\* none with a parseable timestamp.
C11_WitnessUnparseable ==
    /\ TrendDone /\ ~ret.raised /\ ret.mode = "raw" /\ ret.value = <<>>
    /\ Len(Fetch(table, ret.q)) > 0

\* The rate the upstream series gives a currency on a UTC day.
RateOn(currency, day) ==
    IF NormalCurrency(currency) = "USD" THEN RateOne
    ELSE _fetch_daily_rate_from_twelvedata(
             fx_up, _resolve_pair_to_usd(NormalCurrency(currency)), day).rate

\* The amount of a stored observation in USD (hundredths), at the rate of
\* its own currency on the UTC day of its own search instant.
OwnUsd(r) == r.price_usd * RateOn(r.currency, Day(ParseTs(r.search_ts)))

\* The retained observations of a UTC day.
RetainedOn(d) == {i \in 1..Len(Retained) : Day(ParseTs(Retained[i].search_ts)) = d}

\* m is the least of the USD amounts of day d.
IsMinUsdOn(m, d) ==
    /\ \E i \in RetainedOn(d) : OwnUsd(Retained[i]) = m
    /\ \A i \in RetainedOn(d) : OwnUsd(Retained[i]) >= m

TrendDaily == TrendDone /\ ~ret.raised /\ ret.mode = "daily"

\* C12: in daily mode the series has exactly one row per UTC day of the
\* retained observations, in strictly ascending day order; min_price_usd is
\* the least converted price of the day and observations the number of the
\* day's observations.
C12_DailyOneRowPerDay ==
    TrendDaily =>
        /\ Len(ret.value) = Cardinality(RetainedDays)
        /\ {ret.value[k].search_day : k \in 1..Len(ret.value)} = RetainedDays
        /\ \A j, k \in 1..Len(ret.value) :
              j < k => ret.value[j].search_day < ret.value[k].search_day
        /\ \A k \in 1..Len(ret.value) :
              /\ IsMinUsdOn(ret.value[k].min_price_usd, ret.value[k].search_day)
              /\ ret.value[k].observations = Cardinality(RetainedOn(ret.value[k].search_day))

\* C12 witness: observations of three UTC days, stored out of day order,
\* give three rows; one day holds two observations of different amounts.
C12_Witness ==
    /\ TrendDaily
    /\ Cardinality(RetainedDays) = 3
    /\ Len(ret.value) = 3
    /\ Day(ParseTs(table[1].search_ts)) > Day(ParseTs(table[2].search_ts))

\* C12 witness of the minimum: a day of two observations whose converted
\* amounts differ.
C12_WitnessMinimum ==
    /\ TrendDaily
    /\ \E k \in 1..Len(ret.value) :
          /\ ret.value[k].observations = 2
          /\ \E i \in RetainedOn(ret.value[k].search_day) :
                OwnUsd(Retained[i]) > ret.value[k].min_price_usd

\* C13: every price of a returned series is the stored amount converted at
\* the rate of the observation's own currency on the UTC day of its own
\* search instant: in raw mode row by row, in daily mode as the least of
\* the day's converted amounts (not the converted least stored amount).
C13_ConvertedAtOwnInstant ==
    (TrendDone /\ ~ret.raised) =>
        /\ ret.mode = "raw" =>
              \A i \in 1..Len(ret.value) : ret.value[i].price_usd = OwnUsd(Retained[i])
        /\ ret.mode = "daily" =>
              \A k \in 1..Len(ret.value) :
                  IsMinUsdOn(ret.value[k].min_price_usd, ret.value[k].search_day)
        /\ \A i \in 1..Len(Retained) :
              NormalCurrency(Retained[i].currency) # "USD" =>
                  _cache_get_daily(fx_cache,
                                   _resolve_pair_to_usd(NormalCurrency(Retained[i].currency)),
                                   Day(ParseTs(Retained[i].search_ts)))
                      = RateOn(Retained[i].currency, Day(ParseTs(Retained[i].search_ts)))

\* C13 witness: a daily series over two EUR observations of days with
\* different rates, and a day whose least converted amount is that of a
\* USD observation although a EUR observation has the least stored amount.
C13_Witness ==
    /\ TrendDaily
    /\ \E i, j \in 1..Len(Retained) :
          /\ Retained[i].currency = "EUR" /\ Retained[j].currency = "EUR"
          /\ OwnUsd(Retained[i]) # OwnUsd(Retained[j])
    /\ \E k \in 1..Len(ret.value) :
          \E i, j \in RetainedOn(ret.value[k].search_day) :
              /\ Retained[i].currency = "USD"
              /\ OwnUsd(Retained[i]) = ret.value[k].min_price_usd
              /\ Retained[j].price_usd < Retained[i].price_usd
              /\ OwnUsd(Retained[j]) > OwnUsd(Retained[i])

(***************************************************************************)
(* Currency normalizer: C14 .. C18                                         *)
(***************************************************************************)
\* A call of the service has completed.
FxDone == pc = "returned" /\ ret.op \in {"get_rate_to_usd", "amount_to_usd"}
RateDone == pc = "returned" /\ ret.op = "get_rate_to_usd"

\* The currency texts that stand for USD.
UsdTexts == {"USD", "usd", " USD ", ""}

\* The key of the completed call.
RetPair == (IF ret.currency \in {"EUR", "eur"} THEN "EUR" ELSE "USD") \o "/USD"
RetDay == ret.ts \div 2

\* The completed call and the one before it had the same (pair, day).
SameKeyTwice == FxDone /\ fx_prev.pair = RetPair /\ fx_prev.day = RetDay

\* The cache holds a rate under the key of the completed call.
CacheHolds(rate) ==
    \E e \in fx_cache : e.pair = RetPair /\ e.day_utc = RetDay /\ e.rate = rate

UsablePoints(values) ==
    {i \in 1..Len(values) : values[i].datetime # NoneDT /\ values[i].close # NoRate}

\* r is the rate the rule of selection gives for the series and the day.
IsSelectedRate(values, day, r) ==
    LET U == UsablePoints(values)
        OnOrBefore == {i \in U : values[i].datetime <= day}
    IN  IF OnOrBefore # {}
        THEN \E i \in OnOrBefore :
                /\ values[i].close = r
                /\ \A j \in OnOrBefore : values[j].datetime <= values[i].datetime
        ELSE IF U # {}
        THEN \E i \in U :
                /\ values[i].close = r
                /\ \A j \in U : values[i].datetime <= values[j].datetime
        ELSE r = NoRate

\* The symbol form of the last upstream request of the completed call.
LastRequested(sym) ==
    \E i \in 1..Len(ret.io) :
        /\ ret.io[i] = Request(sym)
        /\ \A j \in (i + 1)..Len(ret.io) : ret.io[j] = "cache_put"

\* C15: the rate a call resolves from a returned series is the close of
\* the latest usable point dated on or before the target day, and the close
\* of the earliest usable point when none is; points lacking a date or a
\* close are ignored.
C15_RateSelection ==
    /\ \A sym \in Symbols, d \in {Day(t) : t \in FxInstants} :
          fx_up[sym].ok =>
              IsSelectedRate(fx_up[sym].values, d, _pick_rate_for_day(fx_up[sym].values, d))
    /\ (RateDone /\ ret.ok /\ Requests(ret.io) > 0) =>
          \E sym \in Symbols :
              /\ LastRequested(sym)
              /\ fx_up[sym].ok
              /\ IsSelectedRate(fx_up[sym].values, RetDay, ret.rate)

\* C15 witness: the series has points only 5 and 2 days before the target
\* day 6, and the call returns the close of the later one.
C15_Witness ==
    /\ RateDone /\ ret.ok /\ RetDay = 6
    /\ ret.io = <<"cache_get", Request("EUR/USD"), "cache_put">>
    /\ fx_up["EUR/USD"].values = <<Point(4, 108), Point(1, 105)>>
    /\ ret.rate = 108

\* C15 witnesses of the other cases: no point on or before the day, and
\* points lacking a date or a close.
C15_WitnessEarliest ==
    /\ RateDone /\ ret.ok /\ Requests(ret.io) = 1
    /\ fx_up["EUR/USD"].values = <<Point(8, 140), Point(7, 135)>>
    /\ ret.rate = 135

C15_WitnessIgnored ==
    /\ RateDone /\ ret.ok /\ Requests(ret.io) = 1 /\ RetDay = 6
    /\ fx_up["EUR/USD"].values = <<Point(NoneDT, 999), Point(6, NoRate), Point(5, 115)>>
    /\ ret.rate = 115

\* The step is a call of the service.
IsFxCall == pc = "idle" /\ ret'.op \in {"get_rate_to_usd", "amount_to_usd"}

\* A symbol form yields no usable rate: the request fails, or the series
\* is empty or has no usable point.
YieldsNoRate(sym) == ~fx_up[sym].ok \/ UsablePoints(fx_up[sym].values) = {}

\* The error the pass over a symbol form ends with.
UnderlyingError(sym) ==
    IF ~fx_up[sym].ok THEN fx_up[sym].err \o " " \o sym
    ELSE "RuntimeError no values " \o sym

\* C17: a call for a currency other than USD whose (pair, day) is not
\* cached raises exactly when neither symbol form yields a usable rate; the
\* error names the pair, the day and the error of the last form tried; no
\* rate is returned, no cache row is written and the cache is unchanged.
C17_ResolutionFailure ==
    [][IsFxCall =>
          LET miss == ~\E e \in fx_cache : e.pair = RetPair' /\ e.day_utc = RetDay'
              fails == /\ ret'.currency \notin UsdTexts
                       /\ miss
                       /\ YieldsNoRate("EUR/USD") /\ YieldsNoRate("EURUSD")
          IN  /\ ~ret'.ok <=> fails
              /\ ~ret'.ok =>
                    /\ ret'.err = [pair |-> RetPair', day |-> RetDay',
                                   last_err |-> UnderlyingError("EURUSD")]
                    /\ ret'.op = "get_rate_to_usd" => ret'.rate = NoRate
                    /\ \A i \in 1..Len(ret'.io) : ret'.io[i] # "cache_put"
                    /\ fx_cache' = fx_cache]_vars

\* C17 witness: a call has raised with the error of the second symbol form
\* (an empty series) after an error status on the first; the cache holds
\* the rate of another day.
C17_Witness ==
    /\ RateDone /\ ~ret.ok
    /\ ret.err.pair = "EUR/USD" /\ ret.err.day = RetDay
    /\ ret.err.last_err = "RuntimeError no values EURUSD"
    /\ fx_up["EUR/USD"].err = "ValueError"
    /\ fx_cache # {}
    /\ ~\E e \in fx_cache : e.day_utc = RetDay

\* C18: for a currency text that stands for USD (any letter case, blanks
\* around it, or none given) get_rate_to_usd returns 1.0 without cache
\* read, cache write or upstream request, and amount_to_usd returns the
\* amount unchanged.
C18_UsdShortCircuit ==
    [][(IsFxCall /\ ret'.currency \in UsdTexts) =>
          /\ ret'.ok
          /\ ret'.io = <<>>
          /\ fx_cache' = fx_cache
          /\ ret'.op = "get_rate_to_usd" => ret'.rate = RateOne
          /\ ret'.op = "amount_to_usd" => ret'.usd = ret'.amount * RateOne]_vars

\* C18 witness: amount_to_usd has returned the amount for " USD " while
\* the upstream fails for every symbol form.
C18_Witness ==
    /\ FxDone /\ ret.op = "amount_to_usd"
    /\ ret.currency = " USD "
    /\ ret.usd = 250 * RateOne
    /\ YieldsNoRate("EUR/USD") /\ YieldsNoRate("EURUSD")

\* C18 witnesses of the other texts: lower case, and no currency given.
C18_WitnessLowerCase ==
    RateDone /\ ret.currency = "usd" /\ ret.rate = RateOne /\ ret.io = <<>>

C18_WitnessAbsent ==
    RateDone /\ ret.currency = "" /\ ret.rate = RateOne /\ ret.io = <<>>

\* C16 as stated: a rate the cache holds for a (pair, day) is never changed,
\* whatever get_rate_to_usd calls follow and however the calls of several
\* sessions interleave.
C16_CacheEntryImmutable ==
    [][\A e \in fx_cache :
          \E f \in fx_cache' :
              f.pair = e.pair /\ f.day_utc = e.day_utc /\ f.rate = e.rate]_vars

(***************************************************************************)
(* Search flow: C19                                                        *)
(***************************************************************************)
\* The append of the request has been attempted.
FlowAppended == ret.op = "append_offers" /\ pc \in {"logged", "scored", "displayed", "stopped"}

\* C19: whether the append raised or not, the request goes on: nothing is
\* reported to the user, the request is not stopped, and scoring,
\* recommendation and best price are those of the offers the provider
\* returned; a failed append leaves the table as it was.
C19_AppendFailureIsolated ==
    FlowAppended =>
        /\ pc # "stopped"
        /\ ui.error = "" /\ ui.warning = "" /\ ~ui.stopped
        /\ offers # <<>>
        /\ ret.raised => table = <<>>
        /\ pc \in {"scored", "displayed"} =>
              /\ scored = score_offers(offers, params)
              /\ Len(scored) = Len(offers)
              /\ recommended = scored[1]
              /\ best_price = pick_best_by_price(offers)
        /\ pc = "displayed" => ui.shown

\* C19 witness: the append raised and the page is displayed with the
\* scores of both offers, no message, and no row logged.
C19_Witness ==
    /\ pc = "displayed" /\ ret.op = "append_offers" /\ ret.raised
    /\ ui.shown /\ ui.error = ""
    /\ Len(scored) = 2
    /\ table = <<>>

\* C19 witness of the other side: the same page after an append that
\* succeeded.
C19_WitnessLogged ==
    /\ pc = "displayed" /\ ret.op = "append_offers" /\ ~ret.raised
    /\ ui.shown /\ Len(scored) = 2 /\ Len(table) = 2

(***************************************************************************)
(* Amadeus client: C20                                                     *)
(***************************************************************************)
GetDone == pc = "returned" /\ ret.op = "get"

\* The positions of the resource requests and of the token requests in the
\* log of the call.
GetsAt == {i \in 1..Len(ret.log) : ret.log[i].req = "get"}
TokensAt == {i \in 1..Len(ret.log) : ret.log[i].req = "token"}

\* The position of the first resource request, 0 when none was sent.
FirstGet == IF GetsAt = {} THEN 0 ELSE CHOOSE i \in GetsAt : \A j \in GetsAt : i <= j

\* The first response of the call is 401.
First401 == GetDone /\ FirstGet > 0 /\ ret.log[FirstGet].status = 401

\* The cached token has more than 60 seconds of validity left at the call.
CachedTokenFresh ==
    ret.before.access_token # "" /\ ret.before.token_expiry_epoch - ret.at > 60

C20_WitnessReuse ==
    /\ GetDone /\ CachedTokenFresh
    /\ ret.log = <<GetEvent(200)>> /\ ~ret.raised

(***************************************************************************)
(* Symbol forms of the FX resolver: C22                                    *)
(***************************************************************************)
\* The upstream requests of the completed call, in the order made.
RequestsMade ==
    LET IsRequest(e) == \E sym \in Symbols : e = Request(sym)
    IN  SelectSeq(ret.io, IsRequest)

\* The completed call has read the cache and found no rate.
CacheMissed == RateDone /\ Len(ret.io) > 0 /\ ret.io # <<"cache_get">>

\* C22: on a cache miss the resolver requests "EUR/USD" first; when that
\* form yields a rate it is the rate returned and "EURUSD" is not
\* requested; when it fails or yields no usable rate "EURUSD" is requested
\* next; no call makes more than two requests.
C22_CanonicalSymbolFirst ==
    /\ RateDone => Len(RequestsMade) <= 2
    /\ CacheMissed =>
          IF YieldsNoRate("EUR/USD")
          THEN RequestsMade = <<Request("EUR/USD"), Request("EURUSD")>>
          ELSE /\ RequestsMade = <<Request("EUR/USD")>>
               /\ ret.ok
               /\ IsSelectedRate(fx_up["EUR/USD"].values, RetDay, ret.rate)

\* both forms would yield a rate; the call asked the canonical form alone
\* and returned its close
C22_Witness ==
    /\ CacheMissed /\ ret.ok
    /\ ~YieldsNoRate("EUR/USD") /\ ~YieldsNoRate("EURUSD")
    /\ RequestsMade = <<Request("EUR/USD")>>
    /\ ret.rate = 130

\* the canonical form failed and the rate came from the fallback form
C22_WitnessFallback ==
    /\ CacheMissed /\ ret.ok
    /\ RequestsMade = <<Request("EUR/USD"), Request("EURUSD")>>
    /\ ret.rate = 125

(***************************************************************************)
(* Live search: C21, C30                                                   *)
(***************************************************************************)
SearchDone == pc \in {"searched", "stopped"} /\ ret.op = "search"

\* the sub-search the request asks for at day offset d
ExpectedSubSearch(d) ==
    [origin |-> params.origin, destination |-> params.destination,
     trip_structure |-> params.trip_structure,
     departure_date |-> params.departure_date + d,
     return_date |-> IF params.trip_structure = "Roundtrip" /\ params.return_date # NoneDT
                     THEN params.departure_date + d
                              + (params.return_date - params.departure_date)
                     ELSE NoneDT,
     passengers |-> params.passengers, max_stops |-> params.max_stops,
     flexible_dates |-> FALSE]

\* what the upstream of the request answers to sub-search i of the log
AnswerTo(i) == ret.up[ToString(ret.log[i].departure_date)]

\* the offers of sub-search i of the log
FoundBy(i) == _search_one(ret.log[i], AnswerTo(i)).offers

RECURSIVE ConcatFound(_)
\* the results of the sub-searches 1..n of the log, concatenated
ConcatFound(n) == IF n = 0 THEN <<>> ELSE ConcatFound(n - 1) \o FoundBy(n)

\* C21: a search that returns has issued, with flexible dates, the seven
\* sub-searches of the day offsets -3..+3 in that order, each with
\* flexible_dates off and with the trip length of a roundtrip that has a
\* return date (no return date otherwise), and returns the dedup of their
\* concatenated results; without flexible dates it has issued the one
\* sub-search of the request and returns its dedup.  A search that raises
\* has issued a prefix of these sub-searches.
C21_FlexibleSubSearches ==
    SearchDone =>
        /\ params.flexible_dates =>
              /\ Len(ret.log) <= 7
              /\ \A i \in 1..Len(ret.log) : ret.log[i] = ExpectedSubSearch(i - 4)
              /\ ~ret.raised => Len(ret.log) = 7
        /\ ~params.flexible_dates => ret.log = <<params>>
        /\ ~ret.raised => ret.value = _dedup_offers(ConcatFound(Len(ret.log)))

\* a flexible roundtrip search returned and the dedup merged offers
C21_Witness ==
    /\ SearchDone /\ ~ret.raised /\ params.flexible_dates
    /\ params.trip_structure = "Roundtrip" /\ params.return_date # NoneDT
    /\ Len(ret.log) = 7
    /\ ret.log[1].departure_date = 2 /\ ret.log[1].return_date = 4
    /\ Len(ret.value) > 1
    /\ Len(ret.value) < Len(ConcatFound(7))

\* a search without flexible dates returned offers
C21_WitnessSingle ==
    /\ SearchDone /\ ~ret.raised /\ ~params.flexible_dates
    /\ Len(ret.log) = 1 /\ Len(ret.value) > 0

\* the error the answer to sub-search i of the log leads to
FailureOf(i) == _search_one(ret.log[i], AnswerTo(i))

\* C30: a flexible search raises exactly when one of its sub-searches
\* raises; it then raises the error of the first failing sub-search, returns
\* no offer, and has issued no sub-search after the failing one.
C30_FlexibleAllOrNothing ==
    (SearchDone /\ params.flexible_dates) =>
        /\ ret.raised <=> \E d \in FirstDelta..LastDelta :
                             _search_one(ExpectedSubSearch(d),
                                 ret.up[ToString(params.departure_date + d)]).raised
        /\ ret.raised =>
              /\ ret.value = <<>> /\ offers = <<>>
              /\ FailureOf(Len(ret.log)).raised
              /\ ret.err = FailureOf(Len(ret.log)).err
              /\ \A i \in 1..(Len(ret.log) - 1) : ~FailureOf(i).raised

\* a flexible search raised at its third sub-search, after two sub-searches
\* that had found offers
C30_Witness ==
    /\ SearchDone /\ params.flexible_dates /\ ret.raised
    /\ Len(ret.log) = 3
    /\ Len(FoundBy(1)) > 0 /\ Len(FoundBy(2)) > 0

\* a flexible search raised for a malformed price
C30_WitnessMalformed ==
    /\ SearchDone /\ params.flexible_dates /\ ret.raised
    /\ ret.err = "ValueError" /\ Len(ret.log) < 7

(***************************************************************************)
(* The request and its page: C23, C24                                      *)
(***************************************************************************)
\* nothing of the request after the search has happened: no append call,
\* no row written, no scoring, no FX call, no trend, no card
NothingAfterSearch ==
    /\ table' = table /\ fx_cache' = fx_cache
    /\ ret' = NoRet
    /\ scored' = <<>> /\ recommended' = NoneVal /\ best_price' = NoneVal
    /\ ui'.fx_io = <<>> /\ ui'.trend = ""
    /\ ui'.recommended_price = "" /\ ui'.best_fare = "" /\ ui'.rows = <<>>
    /\ ~ui'.shown

\* C23: a search that raises shows an error message and a search that
\* returns no offers shows a warning; either halts the request: no history
\* row is written, nothing is scored, no trend or FX call is made, and no
\* step of the request follows.
C23_FailedSearchHalts ==
    [][/\ ~ui.stopped
       /\ (pc = "start" /\ offers' = <<>>) =>
              /\ ui'.error # "" \/ ui'.warning # ""
              /\ ui'.stopped /\ pc' = "stopped"
       /\ (ui'.error # "" \/ ui'.warning # "") =>
              /\ ui'.stopped /\ pc' = "stopped"
              /\ offers' = <<>>
              /\ NothingAfterSearch]_vars

\* the search raised: the error is shown, and the row of an earlier day is
\* all the table holds
C23_Witness ==
    /\ pc = "stopped" /\ ui.stopped
    /\ ui.error = "Failed to fetch offers"
    /\ Len(table) = 1 /\ scored = <<>> /\ ret = NoRet /\ fx_cache = {}

\* the search found nothing
C23_WitnessEmpty ==
    /\ pc = "stopped" /\ ui.stopped
    /\ ui.warning = "No offers found for this search." /\ ui.error = ""
    /\ scored = <<>> /\ ret = NoRet

\* The conversion of an amount in a currency at the instant of the request
\* fails: the currency is not USD and the upstream yields no rate.
FxFails(currency) ==
    /\ currency = "EUR"
    /\ \A sym \in Symbols :
          ~fx_up[sym].ok \/ UsablePoints(fx_up[sym].values) = {}

\* the rate of the request's day for a currency, when there is one
PageRate(currency) ==
    IF currency = "EUR"
    THEN _pick_rate_for_day(fx_up["EUR/USD"].values, Day(now))
    ELSE RateOne

\* what a price of the page shows for an offer: unavailable is the text of
\* a failed conversion
ShownPrice(o, unavailable) ==
    IF FxFails(o.currency) THEN unavailable
    ELSE fmt_usd(o.total_price_usd * PageRate(o.currency))

\* the trend query of the page reads a row whose conversion fails
TrendFxFails ==
    \E i \in 1..Len(table) :
        /\ table[i].departure_date = IsoDate(params.departure_date)
        /\ FxFails(table[i].currency)

\* what the page shows at each point of its rendering, FX failure or not
PageShowsFxOutcome ==
    /\ pc \in {"recommended", "trend", "best", "displayed"} =>
          /\ ~ui.stopped /\ ui.error = "" /\ ui.warning = ""
          /\ ui.recommended_price = ShownPrice(recommended.offer, "USD unavailable")
    /\ pc \in {"trend", "best", "displayed"} =>
          (ui.trend = "History trend unavailable" <=> TrendFxFails)
    /\ pc \in {"best", "displayed"} =>
          ui.best_fare = ShownPrice(best_price, "USD unavailable")
    /\ pc = "displayed" =>
          /\ ui.shown
          /\ Len(ui.rows) > 0
          /\ \A i \in 1..Len(ui.rows) :
                ui.rows[i].price = ShownPrice(ui.rows[i].offer, "")
          /\ \A k \in 1..Len(offers) :
                \E i \in 1..Len(ui.rows) :
                    DisplaySig(ui.rows[i].offer) = DisplaySig(offers[k])

\* C24: after a search that found offers, the request is never halted by
\* a failure of the FX resolution: the recommended card, the trend
\* section, the best-fare card and the table are reached in turn; a price
\* whose conversion fails shows "USD unavailable" (an empty cell in the
\* table), a trend whose conversion fails shows that it is unavailable,
\* and every other price is the offer's amount at the rate of the day.
C24_FxFailureDegrades ==
    /\ []PageShowsFxOutcome
    /\ [][/\ pc = "scored" => pc' = "recommended"
          /\ pc = "recommended" => pc' = "trend"
          /\ pc = "trend" => pc' = "best"
          /\ pc = "best" => pc' = "displayed" /\ ui'.shown
          /\ pc \in {"scored", "recommended", "trend", "best"} =>
                ~ui'.stopped /\ ui'.error = "" /\ ui'.warning = ""]_vars

\* the FX resolution failed for the recommended price, the trend, the best
\* fare and a table row, and the page is displayed with a USD row priced
\* and the EUR row left empty
C24_Witness ==
    /\ pc = "displayed" /\ ui.shown
    /\ ui.recommended_price = "USD unavailable"
    /\ ui.trend = "History trend unavailable"
    /\ ui.best_fare = "USD unavailable"
    /\ Len(ui.rows) = 2
    /\ ui.rows[1].price = "$300" /\ ui.rows[2].price = ""
    /\ Requests(ui.fx_io) > 0

\* the trend alone failed: the cards show prices in USD
C24_WitnessTrendOnly ==
    /\ pc = "displayed"
    /\ ui.trend = "History trend unavailable"
    /\ ui.recommended_price = "$300" /\ ui.best_fare = "$300"

\* nothing failed: the EUR price is shown at the rate of the day
C24_WitnessConverted ==
    /\ pc = "displayed"
    /\ ui.recommended_price = "$275" /\ ui.trend = "daily"

(***************************************************************************)
(* History store: C25 .. C28                                               *)
(***************************************************************************)
\* C25 as stated: a call with n > 0 offers always writes at least one
\* row: it persists min(n, max(1, top_n)) rows and returns that number,
\* one row (the first offer of the price-sorted list) for top_n <= 0.
C25_AppendWritesAtLeastOne ==
    [][(IsAppend /\ Len(ret'.offers) > 0) =>
          LET k == Min(Len(ret'.offers), Max(1, ret'.top_n))
          IN  /\ ~ret'.raised
              /\ ret'.value = k /\ k >= 1
              /\ Len(table') = Len(table) + k
              /\ ret'.top_n <= 0 =>
                    /\ ret'.value = 1
                    /\ NewRows = <<Row(SortByPriceFrom(ret'.offers, 1, <<>>)[1],
                                       ret'.ctx, ret'.search_ts)>>]_vars

\* The append of the live request has returned.
LiveLogged == pc \in {"logged", "read"}

\* offers of the request found for another departure date than requested
ShiftedOffers ==
    {i \in 1..Len(offers) : offers[i].departure_date # DateVal(params.departure_date)}

\* C26: every row written for the request carries the origin, the
\* destination, the trip structure, the departure date and the return date
\* of the request, whatever the dates of the offer; the route history and
\* the trend read for the requested departure date return all of them.
C26_RowsCarrySearchContext ==
    /\ LiveLogged =>
          /\ Len(table) = Len(offers)
          /\ \A i \in 1..Len(table) :
                /\ table[i].origin = params.origin
                /\ table[i].destination = params.destination
                /\ table[i].trip_structure = params.trip_structure
                /\ table[i].departure_date = IsoDate(params.departure_date)
                /\ table[i].return_date =
                       (IF params.return_date = NoneDT THEN ""
                        ELSE IsoDate(params.return_date))
                /\ \E k \in 1..Len(offers) :
                       /\ table[i].offer_signature = _offer_signature(offers[k])
                       /\ table[i].price_usd = offers[k].total_price_usd
    /\ (pc = "read" /\ ret.op = "history") =>
          /\ Len(ret.value) = Len(table)
          /\ {ret.value[i].offer_signature : i \in 1..Len(ret.value)}
                 = {_offer_signature(offers[k]) : k \in 1..Len(offers)}
          /\ Len(ret.trend) = 1
          /\ ret.trend[1].observations = Len(table)

\* a flexible search found offers for shifted dates only; they are logged
\* and read back under the requested date
C26_Witness ==
    /\ pc = "read" /\ ret.op = "history"
    /\ params.flexible_dates
    /\ Len(offers) >= 2
    /\ ShiftedOffers = 1..Len(offers)
    /\ Len(ret.value) = Len(offers)
    /\ \A i \in 1..Len(table) : table[i].departure_date = IsoDate(RequestedDay)

\* An append of the store has returned.
AppendReturned == pc = "returned" /\ ret.op = "append_offers"

\* offer_signature(o) of the store returns the text of _offer_signature(o)
SameSignature(o) ==
    /\ ~SignatureRaises(o)
    /\ offer_signature(o) = _offer_signature(o)

\* C27 as stated: for every offer handed to the store, the signature of
\* the store equals the signature used for deduplication.
C27_SignaturesAgree ==
    AppendReturned => \A i \in 1..Len(ret.offers) : SameSignature(ret.offers[i])

\* The part of C27 about live offers: the field assigned at normalization
\* is the text of both functions, and it is the text of the row written.
LiveSignatureKept ==
    /\ \A i \in 1..Len(offers) :
          /\ SameSignature(offers[i])
          /\ offers[i].offer_signature = _offer_signature(offers[i])
    /\ LiveLogged =>
          \A i \in 1..Len(table) :
              \E k \in 1..Len(offers) :
                  table[i].offer_signature = offers[k].offer_signature

\* a live offer without segments, signed by the fallback, has been logged
LiveSignatureFallbackLogged ==
    /\ LiveLogged
    /\ \E i \in 1..Len(offers) : offers[i].itineraries = <<>>

\* offers of the CSV variant: no itinerary, return_date no date
CsvVariant(o) == o.itineraries = <<>> /\ o.return_date.k \notin {"none", "date"}

\* C28 as stated: an append that is handed offers of the CSV variant
\* completes without raising and writes one row per kept offer,
\* min(n, top_n) rows.
C28_AppendEveryVariant ==
    (/\ AppendReturned
     /\ ret.top_n >= 1
     /\ \E i \in 1..Len(ret.offers) : CsvVariant(ret.offers[i]))
        => /\ ~ret.raised
           /\ ret.wrote
           /\ ret.value = Min(Len(ret.offers), ret.top_n)

\* The appends of offers of the other variants complete.
OtherVariantsAppend ==
    (/\ AppendReturned
     /\ ret.top_n >= 1
     /\ Len(ret.offers) > 0
     /\ \A i \in 1..Len(ret.offers) : ~CsvVariant(ret.offers[i]))
        => /\ ~ret.raised
           /\ ret.wrote
           /\ ret.value = Min(Len(ret.offers), ret.top_n)

(***************************************************************************)
(* Trend in USD: C29                                                       *)
(***************************************************************************)
\* a step that is a call of get_market_trend_usd_dual
IsTrendCall == pc = "idle" /\ pc' = "returned" /\ ret'.op = "get_market_trend_usd_dual"

\* the observations the call converts, in the order of the conversion
Observed == SelectSeq(Fetch(table, ret'.q), Parsed)

PairOfRow(r) == _resolve_pair_to_usd(NormalCurrency(r.currency))

\* the observation needs a rate that the cache does not hold when the call
\* starts
NeedsFetch(r) ==
    /\ NormalCurrency(r.currency) # "USD"
    /\ _cache_get_daily(fx_cache, PairOfRow(r), DayOfRow(r)) = NoRate

\* rate resolution fails for the observation
ResolutionFails(r) ==
    /\ NeedsFetch(r)
    /\ ~_fetch_daily_rate_from_twelvedata(fx_up, PairOfRow(r), DayOfRow(r)).ok

\* the cache row the conversion of the observation writes
WrittenFor(r) ==
    [pair |-> PairOfRow(r), day_utc |-> DayOfRow(r),
     rate |-> _fetch_daily_rate_from_twelvedata(fx_up, PairOfRow(r), DayOfRow(r)).rate]

\* the observations converted before the first failure
BeforeFailure ==
    {i \in 1..Len(Observed) : \A k \in 1..i : ~ResolutionFails(Observed[k])}

\* C29: the call raises exactly when rate resolution fails for one of the
\* observations it fetched, whatever the other observations are; it then
\* returns no mode and no series, leaves the observation table as it was,
\* and the FX cache holds, beside its rows of before, the rows written for
\* the observations converted before the failure.
C29_TrendAllOrNothing ==
    [][IsTrendCall =>
          /\ ret'.raised <=> \E i \in 1..Len(Observed) : ResolutionFails(Observed[i])
          /\ ret'.raised =>
                /\ ret'.mode = "" /\ ret'.value = <<>>
                /\ table' = table
                /\ fx_cache \subseteq fx_cache'
                /\ fx_cache' = fx_cache \cup
                       {WrittenFor(Observed[i]) :
                           i \in {k \in BeforeFailure : NeedsFetch(Observed[k])}}]_vars

\* a call has raised after it converted an observation and wrote its rate
C29_Witness ==
    /\ TrendDone /\ ret.raised
    /\ ret.mode = "" /\ ret.value = <<>>
    /\ \E i \in 1..Len(ret.fx_io) : ret.fx_io[i] = "cache_put"
    /\ fx_cache # {}

\* a call has raised although one of its observations is in USD
C29_WitnessUsd ==
    /\ TrendDone /\ ret.raised
    /\ \E i \in 1..Len(Retained) : Retained[i].currency = "USD"

====
